---- MODULE Spec2Model ----
(***************************************************************************)
(* TradingEngine (ExecutionSystem): the SPSC ring buffer between the       *)
(* network thread and the strategy thread (LockFreeQueue.hpp, main.cpp)    *)
(* and the order manager over its object pool (OrderManager.hpp,           *)
(* ObjectPool.hpp).                                                        *)
(*                                                                         *)
(* SpecQueue  : one producer (the market-data callback of main.cpp) and    *)
(*              one consumer (the pop loop of Strategy::run), interleaved  *)
(*              at the granularity of the atomic loads/stores and of the   *)
(*              two halves of the non-atomic BookTicker copy.              *)
(*              head_ and tail_ are std::atomic with release stores and    *)
(*              acquire loads; each load or store is one step, taken in    *)
(*              program order.                                             *)
(* SpecOM     : createOrder and onExecutionReport, each atomic under the   *)
(*              manager's mutex_, called in any order with any arguments.  *)
(* SpecRisk   : checkOrder and updatePosition of the RiskManager            *)
(*              (RiskManager.hpp), called in any order while the steady    *)
(*              clock advances.                                            *)
(* SpecStrategy : Strategy::onMarketData (Strategy.hpp) over the order     *)
(*              books, the risk manager, the order manager and the         *)
(*              gateway, one ticker per step.                              *)
(* SpecSystem : the same with the detached threads of                      *)
(*              OrderGateway::sendOrder (OrderGateway.cpp), as main.cpp    *)
(*              assembles them.                                            *)
(* SpecRun    : the loop of Strategy::run against the feed and the         *)
(*              shutdown of main.cpp, the strategy thread scheduled        *)
(*              fairly.                                                    *)
(***************************************************************************)
EXTENDS Integers, Sequences, FiniteSets, Bags, TLC

(***************************************************************************)
(* Bounds of the model.                                                    *)
(***************************************************************************)
\* log2 of the ring's Capacity (main.cpp uses 1024 = 2^10)
LogCapacity == 2
\* the feed hands Capacity + ExtraTicks ticks to the callback
ExtraTicks == 2
\* cells of the order pool (OrderManager.hpp uses 100000)
PoolSize == 2
\* the steady clock is followed for MaxWindows rate windows
MaxWindows == 2
\* the latency monitor records up to MaxSamples samples
MaxSamples == 3

VARIABLES
  \* ---- LockFreeQueue<BookTicker, Capacity> ----
  head_,              \* std::atomic<size_t> head_
  tail_,              \* std::atomic<size_t> tail_
  buffer_,            \* std::vector<T> buffer_{Capacity}
  \* ---- producer thread: the callback of main.cpp inside push ----
  ppc,                \* position of the producer
  push_item,          \* const T &item
  push_current_tail,  \* local current_tail of push
  push_next_tail,     \* local next_tail of push
  pushRet,            \* what the last push returned: "none", "true", "false"
  nextTick,           \* number of the next tick the feed delivers
  \* ---- consumer thread: the pop loop of Strategy::run ----
  cpc,                \* position of the consumer
  pop_current_head,   \* local current_head of pop
  pop_item,           \* T &item (the caller's ticker)
  popRet,             \* what the last pop returned: "none", "true", "false"
  \* ---- history of the queue ----
  accepted,           \* items of the pushes that returned true, in order
  delivered,          \* items of the pops that returned true, in order
  dropped,            \* ticks the callback discarded
  \* ---- OrderManager ----
  orders_,            \* std::unordered_map<long long, Order *> orders_
  nextOrderId_,       \* long long nextOrderId_
  pool_,              \* ObjectPool::pool_ : the slab of Order cells
  freeList_,          \* ObjectPool::freeList_ : stack of free cells
  lastCall,           \* the last OrderManager call and what it returned
  \* ---- RiskManager ----
  currentPosition_,   \* std::atomic<double> currentPosition_, in units of 0.001
  lastCheckTime_,     \* steady_clock::time_point lastCheckTime_, in ms
  ordersInWindow_,    \* int ordersInWindow_
  now,                \* what std::chrono::steady_clock::now() reads, in ms
  riskCall,           \* the last RiskManager call and what it returned
  \* ---- Strategy ----
  orderBooks_,        \* std::unordered_map<SymbolId, OrderBook> orderBooks_
  tradeExecuted_,     \* bool tradeExecuted_
  tickLog,            \* the calls the last onMarketData made, in order
  soundFeed,          \* every ticker so far had bid < ask and quantities > 0
  \* ---- OrderGateway ----
  execCallback_,      \* ExecCallback execCallback_
  inFlight,           \* the detached threads of sendOrder that still sleep
  finished,           \* the detached threads that ended, with their callbacks
  \* ---- Strategy::run and the shutdown of main ----
  running_,           \* std::atomic<bool> running_
  rpc,                \* position of the strategy thread in Strategy::run
  handled,            \* update_id of the last ticker run gave to onMarketData
  reports,            \* number of calls of latencyMonitor_.report()
  owed,               \* tickers pushed before stop() that run has not handled
  mpc,                \* position of the main thread
  \* ---- one OrderBook, called directly ----
  orderBook,          \* std::map bids_, asks_ of the book
  bookCall,           \* the last call made on the book, and the book before it
  \* ---- LatencyMonitor ----
  count_,             \* uint64_t count_
  min_,               \* uint64_t min_
  max_,               \* uint64_t max_
  buckets_,           \* uint64_t buckets_[NUM_BUCKETS]: the buckets that are not 0
  samples,            \* the arguments of the record calls, in order
  printed,            \* what the last report() printed
  \* ---- SymbolManager ----
  nextId_,            \* SymbolId nextId_
  symbolToId_,        \* std::unordered_map<std::string, SymbolId> symbolToId_
  idToSymbol_,        \* std::vector<std::string> idToSymbol_ (index id + 1)
  symCall,            \* the last SymbolManager call and what it returned
  \* ---- ObjectPool<Order, PoolSize>, called directly ----
  live,               \* the cells acquired and not released since
  poolCall,           \* the last ObjectPool call and what it returned
  \* ---- OrderManager with a thread that reads an order of getOrder ----
  mutex_,             \* std::mutex mutex_: "free" or the thread that holds it
  reporter,           \* the thread inside onExecutionReport: position, locals
  reader,             \* the thread that called getOrder: position, what it
                      \* read, and the (filledQuantity, state) pairs its order
                      \* held since the call while no report was half applied
  \* ---- main: the lifetime of the objects of its try block ----
  destroyed           \* main has left the block: the gateway, the managers,
                      \* the strategy and the queue are destroyed

queueVars == <<head_, tail_, buffer_, ppc, push_item, push_current_tail,
               push_next_tail, pushRet, nextTick, cpc, pop_current_head,
               pop_item, popRet, accepted, delivered, dropped>>
omVars == <<orders_, nextOrderId_, pool_, freeList_, lastCall>>
riskVars == <<currentPosition_, lastCheckTime_, ordersInWindow_, now, riskCall>>
strategyVars == <<orderBooks_, tradeExecuted_, tickLog, soundFeed>>
gatewayVars == <<execCallback_, inFlight, finished>>
runVars == <<running_, rpc, handled, reports, owed, mpc>>
bookVars == <<orderBook, bookCall>>
\* the classes that are exercised on their own
latencyVars == <<count_, min_, max_, buckets_, samples, printed>>
symbolVars == <<nextId_, symbolToId_, idToSymbol_, symCall>>
poolVars == <<live, poolCall>>
snapVars == <<mutex_, reporter, reader>>
lifeVars == <<destroyed>>
libVars == <<bookVars, latencyVars, symbolVars, poolVars, snapVars, lifeVars>>
vars == <<queueVars, omVars, riskVars, strategyVars, gatewayVars, runVars,
          libVars>>

\* what the steps of one component leave alone
restOfQueue == <<omVars, riskVars, strategyVars, gatewayVars, runVars, libVars>>
restOfOM == <<riskVars, strategyVars, gatewayVars, runVars, libVars>>
restOfRisk == <<queueVars, omVars, strategyVars, gatewayVars, runVars, libVars>>
restOfRun == <<omVars, riskVars, strategyVars, gatewayVars, libVars>>
restOfLib == <<queueVars, omVars, riskVars, strategyVars, gatewayVars, runVars>>
restOfBook == <<restOfLib, latencyVars, symbolVars, poolVars, snapVars, lifeVars>>
restOfLatency == <<restOfLib, bookVars, symbolVars, poolVars, snapVars, lifeVars>>
restOfSymbols == <<restOfLib, bookVars, latencyVars, poolVars, snapVars, lifeVars>>
restOfPool == <<orders_, nextOrderId_, lastCall, queueVars, riskVars,
                strategyVars, gatewayVars, runVars, bookVars, latencyVars,
                symbolVars, snapVars, lifeVars>>
restOfSnap == <<orders_, nextOrderId_, freeList_, lastCall, queueVars, riskVars,
                strategyVars, gatewayVars, runVars, bookVars, latencyVars,
                symbolVars, poolVars, lifeVars>>

(***************************************************************************)
(* Helpers                                                                 *)
(***************************************************************************)
\* the sum of f over the set S
RECURSIVE SumOver(_, _)
SumOver(S, f) ==
  IF S = {} THEN 0
  ELSE LET x == CHOOSE y \in S : TRUE IN f[x] + SumOver(S \ {x}, f)

RECURSIVE Pow2(_)
Pow2(n) == IF n = 0 THEN 1 ELSE 2 * Pow2(n - 1)

\* the C++ operator & on non-negative integers
RECURSIVE BitAnd(_, _)
BitAnd(a, b) ==
  IF a = 0 \/ b = 0 THEN 0
  ELSE (IF a % 2 = 1 /\ b % 2 = 1 THEN 1 ELSE 0) + 2 * BitAnd(a \div 2, b \div 2)

IsPrefix(s, t) == Len(s) <= Len(t) /\ SubSeq(t, 1, Len(s)) = s

Range(s) == {s[i] : i \in 1..Len(s)}

(***************************************************************************)
(* LockFreeQueue                                                           *)
(***************************************************************************)
Capacity == Pow2(LogCapacity)
Slots == 0..(Capacity - 1)
MaxTicks == Capacity + ExtraTicks

\* A BookTicker is copied member by member; symbol is its first member and
\* update_id its last one.  Tick n carries n in both, so a copy that mixes
\* two ticks is visible.
Tick(n) == [symbol |-> n, update_id |-> n]
\* value-initialised element of std::vector<T> buffer_{Capacity}
DefaultTick == Tick(0)

\* lines 32 and 81: (index + 1) & (Capacity - 1)
NextIndex(index) == BitAnd(index + 1, Capacity - 1)

\* a push that never finds the queue full
PushIsFullNever(next_tail, current_head) == FALSE

\* a full test that is one slot early
PushIsFullOneEarly(next_tail, current_head) ==
  NextIndex(next_tail) = current_head

\* line 40: if (next_tail == current_head) return false
PushIsFull(next_tail, current_head) == next_tail = current_head

\* an empty test that also finds a ring of one item empty
PopIsEmptyAtOne(current_head, current_tail) ==
  current_head = current_tail \/ NextIndex(current_head) = current_tail

\* line 72: if (current_head == current_tail) return false
PopIsEmpty(current_head, current_tail) == current_head = current_tail

\* line 46: the slot push writes
PushSlot(current_tail, next_tail) == current_tail

\* line 78: the slot pop reads
PopSlot(current_head) == current_head

\* the element of the program that follows pc
After(program, pc) ==
  LET i == CHOOSE k \in 1..Len(program) : program[k] = pc IN program[i + 1]

\* tail_ published before the slot is written
PushProgramPublishFirst ==
  <<"push_publish", "push_write_first", "push_write_last", "callback_ret">>

\* lines 46-54: the order of push's steps once the queue is found not full:
\* the slot is written (member by member), then tail_ is published, then
\* push returns
PushProgram ==
  <<"push_write_first", "push_write_last", "push_publish", "callback_ret">>

\* lines 78-89: the order of pop's steps once the queue is found not empty:
\* the slot is copied out (member by member), then head_ is published, then
\* pop returns
PopProgram ==
  <<"pop_read_first", "pop_read_last", "pop_publish", "idle">>

producerVars == <<ppc, push_item, push_current_tail, push_next_tail, pushRet,
                  nextTick>>
consumerVars == <<cpc, pop_current_head, pop_item, popRet>>

\* main.cpp: the network thread invokes the callback with the next ticker,
\* and the callback calls marketDataQueue.push(ticker)
Callback ==
  /\ ppc = "idle"
  /\ nextTick <= MaxTicks
  /\ push_item' = Tick(nextTick)
  /\ nextTick' = nextTick + 1
  /\ pushRet' = "none"
  /\ ppc' = "push_load_tail"
  /\ UNCHANGED <<head_, tail_, buffer_, push_current_tail, push_next_tail,
                 consumerVars, accepted, delivered, dropped, restOfQueue>>

\* push: current_tail = tail_.load(relaxed); next_tail = (current_tail+1) & mask
PushLoadTail ==
  /\ ppc = "push_load_tail"
  /\ push_current_tail' = tail_
  /\ push_next_tail' = NextIndex(tail_)
  /\ ppc' = "push_check"
  /\ UNCHANGED <<head_, tail_, buffer_, push_item, pushRet, nextTick,
                 consumerVars, accepted, delivered, dropped, restOfQueue>>

\* a push that goes back to its first load while it finds the queue full
PushCheckFullWaits ==
  /\ ppc = "push_check"
  /\ LET current_head == head_ IN
       IF PushIsFull(push_next_tail, current_head)
       THEN /\ pushRet' = "false"
            /\ ppc' = "push_load_tail"
       ELSE /\ pushRet' = pushRet
            /\ ppc' = PushProgram[1]
  /\ UNCHANGED <<head_, tail_, buffer_, push_item, push_current_tail,
                 push_next_tail, nextTick, consumerVars, accepted, delivered,
                 dropped, restOfQueue>>

\* push: current_head = head_.load(acquire); full => return false
PushCheckFull ==
  /\ ppc = "push_check"
  /\ LET current_head == head_ IN
       IF PushIsFull(push_next_tail, current_head)
       THEN /\ pushRet' = "false"
            /\ ppc' = "callback_ret"
       ELSE /\ pushRet' = pushRet
            /\ ppc' = PushProgram[1]
  /\ UNCHANGED <<head_, tail_, buffer_, push_item, push_current_tail,
                 push_next_tail, nextTick, consumerVars, accepted, delivered,
                 dropped, restOfQueue>>

\* line 54: return true, once the last step of PushProgram is done
PushReturns ==
  pushRet' = IF After(PushProgram, ppc) = "callback_ret" THEN "true" ELSE pushRet

\* push: buffer_[current_tail] = item, first member of the copy
PushWriteFirst ==
  /\ ppc = "push_write_first"
  /\ buffer_' = [buffer_ EXCEPT
                   ![PushSlot(push_current_tail, push_next_tail)].symbol =
                      push_item.symbol]
  /\ ppc' = After(PushProgram, ppc)
  /\ PushReturns
  /\ UNCHANGED <<head_, tail_, push_item, push_current_tail, push_next_tail,
                 nextTick, consumerVars, accepted, delivered, dropped, restOfQueue>>

\* push: buffer_[current_tail] = item, last member of the copy
PushWriteLast ==
  /\ ppc = "push_write_last"
  /\ buffer_' = [buffer_ EXCEPT
                   ![PushSlot(push_current_tail, push_next_tail)].update_id =
                      push_item.update_id]
  /\ ppc' = After(PushProgram, ppc)
  /\ PushReturns
  /\ UNCHANGED <<head_, tail_, push_item, push_current_tail, push_next_tail,
                 nextTick, consumerVars, accepted, delivered, dropped, restOfQueue>>

\* push: tail_.store(next_tail, release); from here on the consumer can see
\* the item, so this is where it counts as accepted
PushPublish ==
  /\ ppc = "push_publish"
  /\ tail_' = push_next_tail
  /\ accepted' = Append(accepted, push_item)
  /\ ppc' = After(PushProgram, ppc)
  /\ PushReturns
  /\ UNCHANGED <<head_, buffer_, push_item, push_current_tail, push_next_tail,
                 nextTick, consumerVars, delivered, dropped, restOfQueue>>

\* a callback that retries the push until the queue has room
CallbackReturnRetry ==
  /\ ppc = "callback_ret"
  /\ ppc' = IF pushRet = "false" THEN "push_load_tail" ELSE "idle"
  /\ UNCHANGED <<head_, tail_, buffer_, push_item, push_current_tail,
                 push_next_tail, pushRet, nextTick, consumerVars, accepted,
                 delivered, dropped, restOfQueue>>

\* main.cpp: if (!push(ticker)) { warn: dropping packet }; the callback returns
CallbackReturn ==
  /\ ppc = "callback_ret"
  /\ dropped' = IF pushRet = "false" THEN Append(dropped, push_item) ELSE dropped
  /\ ppc' = "idle"
  /\ UNCHANGED <<head_, tail_, buffer_, push_item, push_current_tail,
                 push_next_tail, pushRet, nextTick, consumerVars, accepted,
                 delivered, restOfQueue>>

\* pop: current_head = head_.load(relaxed)
PopLoadHead ==
  /\ cpc = "idle"
  /\ pop_current_head' = head_
  /\ popRet' = "none"
  /\ cpc' = "pop_check"
  /\ UNCHANGED <<head_, tail_, buffer_, producerVars, pop_item, accepted,
                 delivered, dropped, restOfQueue>>

\* pop: current_tail = tail_.load(acquire); empty => return false
PopCheckEmpty ==
  /\ cpc = "pop_check"
  /\ LET current_tail == tail_ IN
       IF PopIsEmpty(pop_current_head, current_tail)
       THEN /\ popRet' = "false"
            /\ cpc' = "idle"
       ELSE /\ popRet' = popRet
            /\ cpc' = PopProgram[1]
  /\ UNCHANGED <<head_, tail_, buffer_, producerVars, pop_current_head,
                 pop_item, accepted, delivered, dropped, restOfQueue>>

\* line 89: return true with the copied item, once the last step of
\* PopProgram is done
PopReturns(item) ==
  IF After(PopProgram, cpc) = "idle"
  THEN /\ popRet' = "true"
       /\ delivered' = Append(delivered, item)
  ELSE UNCHANGED <<popRet, delivered>>

\* pop: item = buffer_[current_head], first member of the copy
PopReadFirst ==
  /\ cpc = "pop_read_first"
  /\ pop_item' = [pop_item EXCEPT
                    !.symbol = buffer_[PopSlot(pop_current_head)].symbol]
  /\ cpc' = After(PopProgram, cpc)
  /\ PopReturns(pop_item')
  /\ UNCHANGED <<head_, tail_, buffer_, producerVars, pop_current_head,
                 accepted, dropped, restOfQueue>>

\* pop: item = buffer_[current_head], last member of the copy
PopReadLast ==
  /\ cpc = "pop_read_last"
  /\ pop_item' = [pop_item EXCEPT
                    !.update_id = buffer_[PopSlot(pop_current_head)].update_id]
  /\ cpc' = After(PopProgram, cpc)
  /\ PopReturns(pop_item')
  /\ UNCHANGED <<head_, tail_, buffer_, producerVars, pop_current_head,
                 accepted, dropped, restOfQueue>>

\* pop: head_.store((current_head + 1) & mask, release)
PopPublish ==
  /\ cpc = "pop_publish"
  /\ head_' = NextIndex(pop_current_head)
  /\ cpc' = After(PopProgram, cpc)
  /\ PopReturns(pop_item)
  /\ UNCHANGED <<tail_, buffer_, producerVars, pop_current_head, pop_item,
                 accepted, dropped, restOfQueue>>

(***************************************************************************)
(* ObjectPool<Order, PoolSize> and OrderManager                            *)
(***************************************************************************)
\* Types.hpp line 5: enum class OrderState
OrderStates == {"New", "PendingNew", "Filled", "Canceled", "Rejected"}

\* Types.hpp lines 11-19: enum class ExecType
ExecTypes == {"New", "PartialFill", "Fill", "Canceled", "Rejected",
              "PendingCancel", "PendingNew"}

\* the side the callers of createOrder pass (Side::Buy at both call sites,
\* Strategy.hpp lines 168 and 197); the order manager never reads it
Sides == {"Buy"}

\* the cells &pool_[0] .. &pool_[PoolSize-1]; a pointer is a cell index
Cells == 0..(PoolSize - 1)
NullPtr == -1

\* the other arguments the callers of createOrder pass: btcUsdtId_, one
\* price and one quantity (in units that make the quantity 2)
SymbolIds == {0}
Prices == {100}
Quantities == {2}

\* what execution reports can carry (the members onExecutionReport reads);
\* -1 is the id a failed createOrder hands to the gateway
ReportIds == {-1} \cup (1..PoolSize)
\* less than, and more than, the quantity of the order
CumQtys == {1, 3}
FillTypes == {"PartialFill", "Fill"}
\* a fill report for an id createOrder can return carries any cumQty and any
\* orderState; for the other exec types, and for the id -1 that is never in
\* the registry, onExecutionReport reads neither member, and one value
\* stands for all
Reports ==
  [orderId : 1..PoolSize, execType : FillTypes, orderState : OrderStates,
   cumQty : CumQtys]
  \cup [orderId : 1..PoolSize, execType : ExecTypes \ FillTypes,
        orderState : {"New"}, cumQty : {1}]
  \cup [orderId : {-1}, execType : ExecTypes, orderState : {"Filled"},
        cumQty : {1}]

\* ObjectPool(): pool_.resize(PoolSize) value-initialises every Order
DefaultOrder ==
  [orderId |-> 0, symbolId |-> 0, side |-> "Buy", price |-> 0, quantity |-> 0,
   filledQuantity |-> 0, state |-> "New"]

\* Order::Order(id, symId, s, p, q)
OrderCtor(id, symId, s, p, q) ==
  [orderId |-> id, symbolId |-> symId, side |-> s, price |-> p, quantity |-> q,
   filledQuantity |-> 0, state |-> "New"]

\* ObjectPool::acquire: if (freeList_.empty()) return nullptr
PoolExhausted == freeList_ = <<>>

\* ObjectPool::acquire: obj = freeList_.back()
FreeListBack == freeList_[Len(freeList_)]

\* an acquire that leaves the cell it hands out on the free list
FreeListPopBackKeeps == freeList_

\* ObjectPool::acquire: freeList_.pop_back()
FreeListPopBack == SubSeq(freeList_, 1, Len(freeList_) - 1)

\* a release that pushes the cell twice
FreeListPushBackTwice(obj) == Append(Append(freeList_, obj), obj)

\* ObjectPool::release: freeList_.push_back(obj)
FreeListPushBack(obj) == Append(freeList_, obj)

\* a caller invokes pool.acquire(id, btcUsdtId, Buy, price, quantity), the
\* arguments of the constructor of Order
PoolAcquire ==
  \E id \in 1..PoolSize, price \in Prices, quantity \in 1..2 :
    /\ IF PoolExhausted
       THEN /\ poolCall' = [op |-> "acquire", obj |-> NullPtr]
            /\ UNCHANGED <<pool_, freeList_, live>>
       ELSE LET obj == FreeListBack IN
              /\ freeList_' = FreeListPopBack
              /\ pool_' = [pool_ EXCEPT
                             ![obj] = OrderCtor(id, 0, "Buy", price, quantity)]
              /\ live' = live \cup {obj}
              /\ poolCall' = [op |-> "acquire", obj |-> obj]
    /\ UNCHANGED restOfPool

\* a caller invokes pool.release(obj) for a cell it acquired and has not
\* released; the destructor of Order changes nothing
PoolRelease ==
  \E obj \in live :
    /\ freeList_' = FreeListPushBack(obj)
    /\ live' = live \ {obj}
    /\ poolCall' = [op |-> "release", obj |-> obj]
    /\ UNCHANGED <<pool_, restOfPool>>

PoolNext ==
  \/ PoolAcquire
  \/ PoolRelease

\* OrderManager::getOrder
getOrder(orderId) ==
  IF orderId \in DOMAIN orders_ THEN orders_[orderId] ELSE NullPtr

\* a createOrder that takes the id before it asks the pool for a cell
createOrderTakesIdFirst(symbolId, side, price, quantity) ==
  IF PoolExhausted
  THEN /\ lastCall' = [op |-> "createOrder", ret |-> -1]
       /\ nextOrderId_' = nextOrderId_ + 1
       /\ UNCHANGED <<orders_, pool_, freeList_>>
  ELSE LET order == FreeListBack
           id == nextOrderId_
       IN /\ freeList_' = FreeListPopBack
          /\ pool_' = [pool_ EXCEPT
                         ![order] = OrderCtor(nextOrderId_, symbolId, side,
                                              price, quantity)]
          /\ nextOrderId_' = nextOrderId_ + 1
          /\ orders_' = [i \in DOMAIN orders_ \cup {id} |->
                           IF i = id THEN order ELSE orders_[i]]
          /\ lastCall' = [op |-> "createOrder", ret |-> id]

\* OrderManager::createOrder, under mutex_
createOrder(symbolId, side, price, quantity) ==
  IF PoolExhausted
  THEN /\ lastCall' = [op |-> "createOrder", ret |-> -1]
       /\ UNCHANGED <<orders_, nextOrderId_, pool_, freeList_>>
  ELSE LET order == FreeListBack
           id == nextOrderId_
       IN /\ freeList_' = FreeListPopBack
          /\ pool_' = [pool_ EXCEPT
                         ![order] = OrderCtor(nextOrderId_, symbolId, side,
                                              price, quantity)]
          /\ nextOrderId_' = nextOrderId_ + 1
          /\ orders_' = [i \in DOMAIN orders_ \cup {id} |->
                           IF i = id THEN order ELSE orders_[i]]
          /\ lastCall' = [op |-> "createOrder", ret |-> id]

CreateOrder ==
  /\ \E symbolId \in SymbolIds, side \in Sides, price \in Prices,
        quantity \in Quantities :
       createOrder(symbolId, side, price, quantity)
  /\ UNCHANGED <<queueVars, restOfOM>>

\* OrderManager::onExecutionReport: the switch on report.execType, applied to
\* the order the registry resolved
\* a switch whose default case records the report's cumQty
ApplyReportDefaultFills(order, report) ==
  CASE report.execType = "New" ->
         [order EXCEPT !.state = "New"]
    [] report.execType \in FillTypes ->
         [order EXCEPT !.filledQuantity = report.cumQty,
                       !.state = report.orderState]
    [] report.execType = "Canceled" ->
         [order EXCEPT !.state = "Canceled"]
    [] report.execType = "Rejected" ->
         [order EXCEPT !.state = "Rejected"]
    [] OTHER -> [order EXCEPT !.filledQuantity = report.cumQty]

ApplyReport(order, report) ==
  CASE report.execType = "New" ->
         [order EXCEPT !.state = "New"]
    [] report.execType \in FillTypes ->
         [order EXCEPT !.filledQuantity = report.cumQty,
                       !.state = report.orderState]
    [] report.execType = "Canceled" ->
         [order EXCEPT !.state = "Canceled"]
    [] report.execType = "Rejected" ->
         [order EXCEPT !.state = "Rejected"]
    [] OTHER -> order

\* a lookup by orders_[report.orderId], which registers an unknown id with a
\* null Order*
onExecutionReportInserts(report) ==
  /\ lastCall' = [op |-> "onExecutionReport", report |-> report]
  /\ IF report.orderId \notin DOMAIN orders_
     THEN /\ orders_' = [i \in DOMAIN orders_ \cup {report.orderId} |->
                           IF i = report.orderId THEN NullPtr ELSE orders_[i]]
          /\ UNCHANGED <<nextOrderId_, pool_, freeList_>>
     ELSE LET order == orders_[report.orderId] IN
            /\ pool_' = IF order = NullPtr THEN pool_
                        ELSE [pool_ EXCEPT
                                ![order] = ApplyReport(pool_[order], report)]
            /\ UNCHANGED <<orders_, nextOrderId_, freeList_>>

\* an onExecutionReport that gives a canceled order's cell back to the pool
\* and forgets the id
onExecutionReportRecycles(report) ==
  /\ lastCall' = [op |-> "onExecutionReport", report |-> report]
  /\ IF report.orderId \notin DOMAIN orders_
     THEN UNCHANGED <<orders_, nextOrderId_, pool_, freeList_>>
     ELSE LET order == orders_[report.orderId] IN
            /\ pool_' = [pool_ EXCEPT ![order] = ApplyReport(pool_[order], report)]
            /\ IF report.execType = "Canceled"
               THEN /\ freeList_' = Append(freeList_, order)
                    /\ orders_' = [i \in DOMAIN orders_ \ {report.orderId} |->
                                     orders_[i]]
               ELSE UNCHANGED <<orders_, freeList_>>
            /\ UNCHANGED nextOrderId_

\* OrderManager::onExecutionReport, under mutex_
onExecutionReport(report) ==
  /\ lastCall' = [op |-> "onExecutionReport", report |-> report]
  /\ IF report.orderId \notin DOMAIN orders_
     THEN UNCHANGED <<orders_, nextOrderId_, pool_, freeList_>>
     ELSE LET order == orders_[report.orderId] IN
            /\ pool_' = [pool_ EXCEPT ![order] = ApplyReport(pool_[order], report)]
            /\ UNCHANGED <<orders_, nextOrderId_, freeList_>>

OnExecutionReport ==
  /\ \E report \in Reports : onExecutionReport(report)
  /\ UNCHANGED <<queueVars, restOfOM>>

OMNext ==
  \/ CreateOrder
  \/ OnExecutionReport

(***************************************************************************)
(* OrderManager, statement by statement, beside a reader                   *)
(* onExecutionReport holds mutex_ from its first statement to its return   *)
(* and writes filledQuantity, then state.  getOrder holds mutex_ only      *)
(* while it looks the id up: the const Order * it returns is read by the   *)
(* caller after the lock_guard is gone.  The reads and the writes of the   *)
(* plain doubles and enums are unsynchronised; of the outcomes of that     *)
(* race the model keeps those in which each read returns a value the field *)
(* held at that moment.                                                    *)
(***************************************************************************)
Idle == [pc |-> "idle"]

\* the members of an order that a fill report writes
Pair(order) == <<order.filledQuantity, order.state>>

\* the fill reports for orders of the registry: a partial fill of an order
\* that stays New, or a fill
FillReports ==
  {r \in Reports : /\ r.execType \in FillTypes
                    /\ r.orderState \in {"New", "Filled"}
                    /\ r.orderId \in DOMAIN orders_}

\* createOrder, entered when mutex_ is free and left before another step
LockedCreateOrder ==
  /\ mutex_ = "free"
  /\ CreateOrder
  
\* onExecutionReport: lock_guard, orders_.find, Order *order = it->second
ReportLock ==
  /\ mutex_ = "free"
  /\ reporter = Idle
  /\ \E report \in FillReports :
       reporter' = [pc |-> "write_filled", order |-> orders_[report.orderId],
                    report |-> report]
  /\ mutex_' = "reporter"
  /\ UNCHANGED <<pool_, reader, restOfSnap>>

\* case Fill, PartialFill: order->filledQuantity = report.cumQty
ReportWriteFilled ==
  /\ reporter.pc = "write_filled"
  /\ pool_' = [pool_ EXCEPT
                 ![reporter.order].filledQuantity = reporter.report.cumQty]
  /\ reporter' = [reporter EXCEPT !.pc = "write_state"]
  /\ UNCHANGED <<mutex_, reader, restOfSnap>>

\* case Fill, PartialFill: order->state = report.orderState
ReportWriteState ==
  /\ reporter.pc = "write_state"
  /\ pool_' = [pool_ EXCEPT
                 ![reporter.order].state = reporter.report.orderState]
  /\ reporter' = [reporter EXCEPT !.pc = "return"]
  /\ UNCHANGED <<mutex_, reader, restOfSnap>>

\* the return of onExecutionReport: the lock_guard releases mutex_
ReportReturn ==
  /\ reporter.pc = "return"
  /\ mutex_' = "free"
  /\ reporter' = Idle
  /\ reader' = IF reader.pc = "reading" /\ reader.order = reporter.order
               THEN [reader EXCEPT
                       !.held = @ \cup {Pair(pool_[reporter.order])}]
               ELSE reader
  /\ UNCHANGED <<pool_, restOfSnap>>

\* the reader calls getOrder(orderId) for an id of the registry: the lookup
\* under mutex_, and the pointer returned
ReaderGetOrder ==
  /\ mutex_ = "free"
  /\ reader.pc \in {"idle", "done"}
  /\ \E orderId \in DOMAIN orders_ :
       reader' = [pc |-> "reading", order |-> getOrder(orderId),
                  filledQuantity |-> -1, state |-> "unread",
                  held |-> {Pair(pool_[getOrder(orderId)])}]
  /\ UNCHANGED <<mutex_, reporter, pool_, restOfSnap>>

\* the reader has read both members
ReaderPc(r) ==
  IF r.filledQuantity # -1 /\ r.state # "unread" THEN "done" ELSE "reading"

\* the reader reads order->filledQuantity
ReaderReadFilled ==
  /\ reader.pc = "reading"
  /\ reader.filledQuantity = -1
  /\ LET r == [reader EXCEPT
                 !.filledQuantity = pool_[reader.order].filledQuantity]
     IN  reader' = [r EXCEPT !.pc = ReaderPc(r)]
  /\ UNCHANGED <<mutex_, reporter, pool_, restOfSnap>>

\* the reader reads order->state
ReaderReadState ==
  /\ reader.pc = "reading"
  /\ reader.state = "unread"
  /\ LET r == [reader EXCEPT !.state = pool_[reader.order].state]
     IN  reader' = [r EXCEPT !.pc = ReaderPc(r)]
  /\ UNCHANGED <<mutex_, reporter, pool_, restOfSnap>>

SnapNext ==
  \/ LockedCreateOrder
  \/ ReportLock
  \/ ReportWriteFilled
  \/ ReportWriteState
  \/ ReportReturn
  \/ ReaderGetOrder
  \/ ReaderReadFilled
  \/ ReaderReadState

(***************************************************************************)
(* RiskManager                                                             *)
(* Quantities and positions are in units of 0.001, prices in any unit (the *)
(* price collar is a ratio), times in milliseconds.  The double arithmetic *)
(* of the source is modelled by exact integer arithmetic.                  *)
(***************************************************************************)
\* RiskManager(): maxOrderSize_(10.0), in units of 0.001
maxOrderSize_ == 10000
\* RiskManager(): maxPosition_(100.0), in units of 0.001
maxPosition_ == 100000
\* RiskManager(): maxPriceDeviation_(0.05), in hundredths
maxPriceDeviationPct == 5
\* RiskManager(): maxOrderRate_(10)
maxOrderRate_ == 10
\* checkOrder: std::chrono::milliseconds(1000), the fixed window
WindowMs == 1000

\* std::abs
Abs(x) == IF x < 0 THEN -x ELSE x

\* the members of a RiskManager that checkOrder and updatePosition touch
RiskState ==
  [currentPosition_ |-> currentPosition_, lastCheckTime_ |-> lastCheckTime_,
   ordersInWindow_ |-> ordersInWindow_]

\* checkOrder, check 2: projectedPosition
ProjectedPosition(position, side, quantity) ==
  IF side = "Buy" THEN position + quantity ELSE position - quantity

\* a collar that rejects at the limit itself: deviation >= maxPriceDeviation_
DeviationExceedsAtLimit(price, currentMarketPrice) ==
  100 * Abs(price - currentMarketPrice) >= maxPriceDeviationPct * currentMarketPrice

\* checkOrder, check 3: deviation > maxPriceDeviation_, where
\* deviation = |price - currentMarketPrice| / currentMarketPrice and
\* currentMarketPrice > 0
DeviationExceeds(price, currentMarketPrice) ==
  100 * Abs(price - currentMarketPrice) > maxPriceDeviationPct * currentMarketPrice

\* a window that is reset only when more than WindowMs have passed
WindowExpiredLate(rm, t) == t - rm.lastCheckTime_ > WindowMs

\* checkOrder, check 4: timeDiff >= std::chrono::milliseconds(1000)
WindowExpired(rm, t) == t - rm.lastCheckTime_ >= WindowMs

\* checkOrder, check 4: the reset of an expired window
ResetWindow(rm, t) ==
  IF WindowExpired(rm, t)
  THEN [rm EXCEPT !.ordersInWindow_ = 0, !.lastCheckTime_ = t]
  ELSE rm

\* a checkOrder that brings the window up to date before the first check
checkOrderWindowFirst(rm, side, price, quantity, currentMarketPrice, t) ==
  LET reset == ResetWindow(rm, t) IN
  IF quantity > maxOrderSize_
  THEN [ret |-> FALSE, msg |-> "size", rm |-> reset]
  ELSE IF Abs(ProjectedPosition(rm.currentPosition_, side, quantity)) > maxPosition_
  THEN [ret |-> FALSE, msg |-> "position", rm |-> reset]
  ELSE IF currentMarketPrice > 0 /\ DeviationExceeds(price, currentMarketPrice)
  THEN [ret |-> FALSE, msg |-> "price", rm |-> reset]
  ELSE IF reset.ordersInWindow_ >= maxOrderRate_
       THEN [ret |-> FALSE, msg |-> "rate", rm |-> reset]
       ELSE [ret |-> TRUE, msg |-> "none",
             rm |-> [reset EXCEPT !.ordersInWindow_ = reset.ordersInWindow_ + 1]]

\* a checkOrder whose position check tests the position held, not the
\* position the order would lead to
checkOrderPositionHeld(rm, side, price, quantity, currentMarketPrice, t) ==
  IF quantity > maxOrderSize_
  THEN [ret |-> FALSE, msg |-> "size", rm |-> rm]
  ELSE IF Abs(rm.currentPosition_) > maxPosition_
  THEN [ret |-> FALSE, msg |-> "position", rm |-> rm]
  ELSE IF currentMarketPrice > 0 /\ DeviationExceeds(price, currentMarketPrice)
  THEN [ret |-> FALSE, msg |-> "price", rm |-> rm]
  ELSE LET reset == ResetWindow(rm, t) IN
       IF reset.ordersInWindow_ >= maxOrderRate_
       THEN [ret |-> FALSE, msg |-> "rate", rm |-> reset]
       ELSE [ret |-> TRUE, msg |-> "none",
             rm |-> [reset EXCEPT !.ordersInWindow_ = reset.ordersInWindow_ + 1]]

\* RiskManager::checkOrder on the manager rm when the steady clock reads t:
\* what it returns (ret), the message it logs (msg) and the manager it leaves
checkOrder(rm, side, price, quantity, currentMarketPrice, t) ==
  IF quantity > maxOrderSize_
  THEN [ret |-> FALSE, msg |-> "size", rm |-> rm]
  ELSE IF Abs(ProjectedPosition(rm.currentPosition_, side, quantity)) > maxPosition_
  THEN [ret |-> FALSE, msg |-> "position", rm |-> rm]
  ELSE IF currentMarketPrice > 0 /\ DeviationExceeds(price, currentMarketPrice)
  THEN [ret |-> FALSE, msg |-> "price", rm |-> rm]
  ELSE LET reset == ResetWindow(rm, t) IN
       IF reset.ordersInWindow_ >= maxOrderRate_
       THEN [ret |-> FALSE, msg |-> "rate", rm |-> reset]
       ELSE [ret |-> TRUE, msg |-> "none",
             rm |-> [reset EXCEPT !.ordersInWindow_ = reset.ordersInWindow_ + 1]]

\* RiskManager::updatePosition on the manager rm
updatePosition(rm, side, quantity) ==
  [rm EXCEPT !.currentPosition_ = ProjectedPosition(rm.currentPosition_, side, quantity)]

\* the manager rm becomes the state of the RiskManager
SetRiskState(rm) ==
  /\ currentPosition_' = rm.currentPosition_
  /\ lastCheckTime_' = rm.lastCheckTime_
  /\ ordersInWindow_' = rm.ordersInWindow_

\* the calls the risk manager is driven with on its own: both sides, the
\* largest admissible quantity and the next one, a market price of 100.00
\* with limit prices at and just beyond the collar, and no market price
RiskSides == {"Buy", "Sell"}
RiskQuantities == {maxOrderSize_, maxOrderSize_ + 1}
RiskMarketPrices == {0, 10000}
RiskPrices == {10000, 10500, 10501}
\* what the steady clock advances by between two calls
ClockSteps == {500}

CheckOrder ==
  /\ \E side \in RiskSides, price \in RiskPrices, quantity \in RiskQuantities,
        currentMarketPrice \in RiskMarketPrices :
       LET r == checkOrder(RiskState, side, price, quantity, currentMarketPrice, now)
       IN /\ SetRiskState(r.rm)
          /\ riskCall' = [op |-> "checkOrder", side |-> side, price |-> price,
                          quantity |-> quantity,
                          currentMarketPrice |-> currentMarketPrice,
                          ret |-> r.ret, msg |-> r.msg]
  /\ UNCHANGED <<now, restOfRisk>>

\* updatePosition is called while the position stays within one order of the
\* limit on either side
UpdatePosition ==
  /\ \E side \in RiskSides :
       LET rm == updatePosition(RiskState, side, maxOrderSize_) IN
         /\ Abs(rm.currentPosition_) <= maxPosition_ + maxOrderSize_
         /\ SetRiskState(rm)
         /\ riskCall' = [op |-> "updatePosition", side |-> side,
                         quantity |-> maxOrderSize_]
  /\ UNCHANGED <<now, restOfRisk>>

\* std::chrono::steady_clock is monotonic
AdvanceClock ==
  /\ \E d \in ClockSteps :
       /\ now + d <= MaxWindows * WindowMs
       /\ now' = now + d
  /\ UNCHANGED <<currentPosition_, lastCheckTime_, ordersInWindow_, riskCall,
                 restOfRisk>>

RiskNext ==
  \/ CheckOrder
  \/ UpdatePosition
  \/ AdvanceClock

(***************************************************************************)
(* OrderBook                                                               *)
(* A side of a book is a map from price to quantity.  Prices of BTCUSDT    *)
(* and ETHUSDT are in whole units, prices of ETHBTC in hundredths.         *)
(***************************************************************************)
EmptySide == [p \in {} |-> 0]

\* OrderBook(symbol): both maps empty
EmptyBook == [bids_ |-> EmptySide, asks_ |-> EmptySide]

\* a side that keeps the level of an update of quantity 0
UpdateSideKeepsZero(side, price, quantity) ==
  [p \in DOMAIN side \cup {price} |-> IF p = price THEN quantity ELSE side[p]]

\* std::map::erase(price) when quantity == 0, operator[] otherwise
UpdateSide(side, price, quantity) ==
  IF quantity = 0
  THEN [p \in DOMAIN side \ {price} |-> side[p]]
  ELSE [p \in DOMAIN side \cup {price} |-> IF p = price THEN quantity ELSE side[p]]

\* OrderBook::updateBid
updateBid(book, price, quantity) ==
  [book EXCEPT !.bids_ = UpdateSide(book.bids_, price, quantity)]

\* OrderBook::updateAsk
updateAsk(book, price, quantity) ==
  [book EXCEPT !.asks_ = UpdateSide(book.asks_, price, quantity)]

MaxOf(S) == CHOOSE p \in S : \A q \in S : q <= p
MinOf(S) == CHOOSE p \in S : \A q \in S : p <= q

\* OrderBook::getBestBid: bids_.rbegin()->first, 0.0 on an empty side
getBestBid(book) ==
  IF DOMAIN book.bids_ = {} THEN 0 ELSE MaxOf(DOMAIN book.bids_)

\* OrderBook::getBestAsk: asks_.begin()->first, 0.0 on an empty side
getBestAsk(book) ==
  IF DOMAIN book.asks_ = {} THEN 0 ELSE MinOf(DOMAIN book.asks_)

\* OrderBook::getBestBidQty (specification 4.4, best_bid_qty): the quantity
\* at the best bid, 0 on an empty side
getBestBidQty(book) ==
  IF DOMAIN book.bids_ = {} THEN 0 ELSE book.bids_[MaxOf(DOMAIN book.bids_)]

\* OrderBook::getBestAskQty (specification 4.4, best_ask_qty): the quantity
\* at the best ask, 0 on an empty side
getBestAskQty(book) ==
  IF DOMAIN book.asks_ = {} THEN 0 ELSE book.asks_[MinOf(DOMAIN book.asks_)]

\* the prices and quantities the book is called with
BookPrices == {99, 100, 101}
BookQuantities == {0, 3, 5}

\* a caller invokes book.updateBid(price, quantity)
UpdateBid ==
  \E price \in BookPrices, quantity \in BookQuantities :
    /\ orderBook' = updateBid(orderBook, price, quantity)
    /\ bookCall' = [op |-> "updateBid", price |-> price, quantity |-> quantity,
                     before |-> orderBook]
    /\ UNCHANGED restOfBook

\* a caller invokes book.updateAsk(price, quantity)
UpdateAsk ==
  \E price \in BookPrices, quantity \in BookQuantities :
    /\ orderBook' = updateAsk(orderBook, price, quantity)
    /\ bookCall' = [op |-> "updateAsk", price |-> price, quantity |-> quantity,
                     before |-> orderBook]
    /\ UNCHANGED restOfBook

BookNext ==
  \/ UpdateBid
  \/ UpdateAsk

(***************************************************************************)
(* LatencyMonitor                                                          *)
(* buckets_ is kept as the map of the buckets that were incremented; every *)
(* other bucket holds the 0 of the constructor.                            *)
(***************************************************************************)
BUCKET_SIZE_NS == 100
NUM_BUCKETS == 10000
\* UINT64_MAX, the min_ of the constructor: above every sample of the model
UINT64_MAX == 2147483647

\* the durations passed to record, in ns
SampleValues == {0, 50, 99, 100, 5000, 999999, 1000000, 5000000}

\* buckets_[i]
Bucket(b, i) == IF i \in DOMAIN b THEN b[i] ELSE 0

\* record without the overflow bucket
BucketIndexUnclamped(ns) == ns \div BUCKET_SIZE_NS

\* record: bucket_idx = ns / BUCKET_SIZE_NS, NUM_BUCKETS - 1 when beyond
BucketIndex(ns) ==
  IF ns \div BUCKET_SIZE_NS >= NUM_BUCKETS
  THEN NUM_BUCKETS - 1
  ELSE ns \div BUCKET_SIZE_NS

\* LatencyMonitor::record(ns)
Record ==
  \E ns \in SampleValues :
    /\ Len(samples) < MaxSamples
    /\ count_' = count_ + 1
    /\ min_' = IF ns < min_ THEN ns ELSE min_
    /\ max_' = IF ns > max_ THEN ns ELSE max_
    /\ buckets_' =
         [i \in DOMAIN buckets_ \cup {BucketIndex(ns)} |->
            IF i = BucketIndex(ns) THEN Bucket(buckets_, i) + 1
            ELSE buckets_[i]]
    /\ samples' = Append(samples, ns)
    /\ UNCHANGED <<printed, restOfLatency>>

\* report: accumulated after the loop has added buckets_[i]
Accumulated(i) ==
  SumOver({j \in DOMAIN buckets_ : j <= i}, buckets_)

\* report: uint64_t target = count_ * 0.50, count_ * 0.99, count_ * 0.999
\* (the double is truncated)
Target(perMille) == (count_ * perMille) \div 1000

\* report: the bucket_end_ns of the first bucket at which accumulated >=
\* target; accumulated changes only at a bucket that is not 0, so that the
\* first such bucket is bucket 0 or one of those
Percentile(target) ==
  LET found == {i \in {0} \cup DOMAIN buckets_ : Accumulated(i) >= target}
  IN  IF found = {} THEN 0 ELSE (MinOf(found) + 1) * BUCKET_SIZE_NS

\* LatencyMonitor::report(): Samples, Min, Max and, unless count_ == 0, the
\* three percentiles
Report ==
  /\ printed' =
       IF count_ = 0
       THEN [count |-> count_, min |-> min_, max |-> max_, percentiles |-> FALSE,
             p50 |-> 0, p99 |-> 0, p999 |-> 0]
       ELSE [count |-> count_, min |-> min_, max |-> max_, percentiles |-> TRUE,
             p50 |-> Percentile(Target(500)),
             p99 |-> Percentile(Target(990)),
             p999 |-> Percentile(Target(999))]
  /\ UNCHANGED <<count_, min_, max_, buckets_, samples, restOfLatency>>

LatencyNext ==
  \/ Record
  \/ Report

(***************************************************************************)
(* SymbolManager                                                           *)
(***************************************************************************)
\* the strings passed to getId, and the ids passed to getSymbol
SymbolNames == {"BTCUSDT", "ETHBTC", "ETHUSDT", "BNBUSDT"}
SymbolIdArgs == -1 .. Cardinality(SymbolNames)

\* the members of the manager
SymbolState ==
  [nextId_ |-> nextId_, symbolToId_ |-> symbolToId_, idToSymbol_ |-> idToSymbol_]

\* a getId that registers a new symbol without advancing nextId_
getIdKeepsNextId(sm, name) ==
  IF name \in DOMAIN sm.symbolToId_
  THEN [ret |-> sm.symbolToId_[name], sm |-> sm]
  ELSE [ret |-> sm.nextId_,
        sm |-> [nextId_ |-> sm.nextId_,
                symbolToId_ |->
                  [n \in DOMAIN sm.symbolToId_ \cup {name} |->
                     IF n = name THEN sm.nextId_ ELSE sm.symbolToId_[n]],
                idToSymbol_ |-> Append(sm.idToSymbol_, name)]]

\* SymbolManager::getId(symbol): the id found, or id = nextId_++ registered
\* in both tables
getId(sm, name) ==
  IF name \in DOMAIN sm.symbolToId_
  THEN [ret |-> sm.symbolToId_[name], sm |-> sm]
  ELSE [ret |-> sm.nextId_,
        sm |-> [nextId_ |-> sm.nextId_ + 1,
                symbolToId_ |->
                  [n \in DOMAIN sm.symbolToId_ \cup {name} |->
                     IF n = name THEN sm.nextId_ ELSE sm.symbolToId_[n]],
                idToSymbol_ |-> Append(sm.idToSymbol_, name)]]

\* SymbolManager::getSymbol(id): idToSymbol_[id], "UNKNOWN" out of range
getSymbol(sm, id) ==
  IF id >= 0 /\ id < Len(sm.idToSymbol_)
  THEN sm.idToSymbol_[id + 1]
  ELSE "UNKNOWN"

\* a caller invokes getId(name)
GetId ==
  \E name \in SymbolNames :
    LET r == getId(SymbolState, name) IN
      /\ nextId_' = r.sm.nextId_
      /\ symbolToId_' = r.sm.symbolToId_
      /\ idToSymbol_' = r.sm.idToSymbol_
      /\ symCall' = [op |-> "getId", name |-> name, id |-> r.ret]
      /\ UNCHANGED restOfSymbols

\* a caller invokes getSymbol(id)
GetSymbol ==
  \E id \in SymbolIdArgs :
    /\ symCall' = [op |-> "getSymbol", name |-> getSymbol(SymbolState, id),
                    id |-> id]
    /\ UNCHANGED <<nextId_, symbolToId_, idToSymbol_, restOfSymbols>>

SymbolNext ==
  \/ GetId
  \/ GetSymbol

(***************************************************************************)
(* OrderGateway                                                            *)
(***************************************************************************)
\* a default-constructed std::function
NoCallback == "empty"

\* OrderGateway::sendOrder: std::thread(...).detach(); the thread captures
\* side, price, quantity and orderId by value and the caller goes on
sendOrder(threads, side, price, quantity, orderId) ==
  threads (+) SetToBag({[orderId |-> orderId, side |-> side, price |-> price,
                         quantity |-> quantity]})

\* the ExecutionReport the detached thread builds (the members the order
\* manager reads, and lastPrice)
SimulatedFill(thread) ==
  [orderId |-> thread.orderId, execType |-> "Fill", orderState |-> "Filled",
   cumQty |-> thread.quantity, lastPrice |-> thread.price]

\* what the thread reads through its captured this when it tests
\* execCallback_: the member, or, once the gateway is destroyed, whatever the
\* freed object holds
ReadExecCallback ==
  IF destroyed THEN {NoCallback, "dangling"} ELSE {execCallback_}

\* the body of the detached thread once its sleep is over:
\* if (execCallback_) { ...; execCallback_(report); }
GatewayThread ==
  /\ \E thread \in BagToSet(inFlight), callback \in ReadExecCallback :
       /\ inFlight' = inFlight (-) SetToBag({thread})
       /\ finished' = finished \cup
            {[thread |-> thread,
              callbacks |-> IF callback # NoCallback
                            THEN <<SimulatedFill(thread)>> ELSE <<>>]}
  /\ UNCHANGED <<execCallback_, queueVars, omVars, riskVars, strategyVars,
                 runVars, libVars>>

(***************************************************************************)
(* Strategy::onMarketData                                                  *)
(* The strategy thread is the only caller of the risk manager, of          *)
(* createOrder and of sendOrder, so one onMarketData is one step.  It is   *)
(* computed on a record w of everything it touches: books, traded, rm (the *)
(* RiskManager), om (the OrderManager), threads (the gateway's detached    *)
(* threads) and log (the calls made, in order).  SymbolManager hands out   *)
(* 0, 1, 2 to the three symbols of the constructor and the next id to the  *)
(* first other symbol.                                                     *)
(***************************************************************************)
\* Strategy(): getId("BTCUSDT"), getId("ETHBTC"), getId("ETHUSDT")
btcUsdtId_ == 0
ethBtcId_ == 1
ethUsdtId_ == 2
BookIds == {btcUsdtId_, ethBtcId_, ethUsdtId_}

\* SymbolManager::getId for the symbols of the feed
SymbolIdOf(symbol) ==
  CASE symbol = "BTCUSDT" -> btcUsdtId_
    [] symbol = "ETHBTC" -> ethBtcId_
    [] symbol = "ETHUSDT" -> ethUsdtId_
    [] OTHER -> 3

\* executeArbitrage: double qty = 0.001, in units of 0.001
ArbitrageQty == 1
\* checkAlphaSignal: double qty = 0.01, in units of 0.001
AlphaQty == 10

\* the members of the OrderManager that createOrder touches
OMState ==
  [orders_ |-> orders_, nextOrderId_ |-> nextOrderId_, pool_ |-> pool_,
   freeList_ |-> freeList_]

\* OrderManager::createOrder on the manager om: what it returns and the
\* manager it leaves
createOrderOn(om, symbolId, side, price, quantity) ==
  IF om.freeList_ = <<>>
  THEN [ret |-> -1, om |-> om]
  ELSE LET order == om.freeList_[Len(om.freeList_)]
           id == om.nextOrderId_
       IN [ret |-> id,
           om |-> [orders_ |-> [i \in DOMAIN om.orders_ \cup {id} |->
                                  IF i = id THEN order ELSE om.orders_[i]],
                   nextOrderId_ |-> om.nextOrderId_ + 1,
                   pool_ |-> [om.pool_ EXCEPT
                                ![order] = OrderCtor(id, symbolId, side, price,
                                                     quantity)],
                   freeList_ |-> SubSeq(om.freeList_, 1, Len(om.freeList_) - 1)]]

\* an entry of the log of calls
Event(ev, signal, price, quantity, id, ret) ==
  [ev |-> ev, signal |-> signal, side |-> "Buy", price |-> price,
   quantity |-> quantity, id |-> id, ret |-> ret]

\* an emission that ignores what checkOrder returned
EmitUnchecked(w, signal, price, quantity) ==
  LET r == checkOrder(w.rm, "Buy", price, quantity,
                      getBestAsk(w.books[btcUsdtId_]), now)
      c == createOrderOn(w.om, btcUsdtId_, "Buy", price, quantity)
  IN [w EXCEPT
        !.rm = updatePosition(r.rm, "Buy", quantity),
        !.om = c.om,
        !.threads = sendOrder(w.threads, "Buy", price, quantity, c.ret),
        !.log = w.log \o
                  <<Event("checkOrder", signal, price, quantity, 0, r.ret),
                    Event("createOrder", signal, price, quantity, c.ret, TRUE),
                    Event("sendOrder", signal, price, quantity, c.ret, TRUE),
                    Event("updatePosition", signal, price, quantity, c.ret, TRUE)>>]

\* the emission of a candidate Buy of BTCUSDT, the same at both call sites:
\* an emission that hands the order to the gateway, under the id the order
\* manager will assign, before it creates the order
EmitSendsFirst(w, signal, price, quantity) ==
  LET r == checkOrder(w.rm, "Buy", price, quantity,
                      getBestAsk(w.books[btcUsdtId_]), now)
      c == createOrderOn(w.om, btcUsdtId_, "Buy", price, quantity)
  IN IF ~r.ret
     THEN [w EXCEPT
             !.rm = r.rm,
             !.log = Append(w.log, Event("checkOrder", signal, price, quantity,
                                         0, FALSE))]
     ELSE [w EXCEPT
             !.rm = updatePosition(r.rm, "Buy", quantity),
             !.om = c.om,
             !.threads = sendOrder(w.threads, "Buy", price, quantity, c.ret),
             !.log = w.log \o
                  <<Event("checkOrder", signal, price, quantity, 0, TRUE),
                    Event("sendOrder", signal, price, quantity, c.ret, TRUE),
                    Event("createOrder", signal, price, quantity, c.ret, TRUE),
                    Event("updatePosition", signal, price, quantity, c.ret, TRUE)>>]

\* if (riskManager_.checkOrder("BTCUSDT", Side::Buy, price, qty, getBestAsk()))
\* { id = orderManager_.createOrder(...); gateway_.sendOrder(..., id);
\*   riskManager_.updatePosition(Side::Buy, qty); }
Emit(w, signal, price, quantity) ==
  LET r == checkOrder(w.rm, "Buy", price, quantity,
                      getBestAsk(w.books[btcUsdtId_]), now)
      c == createOrderOn(w.om, btcUsdtId_, "Buy", price, quantity)
  IN IF ~r.ret
     THEN [w EXCEPT
             !.rm = r.rm,
             !.log = Append(w.log, Event("checkOrder", signal, price, quantity,
                                         0, FALSE))]
     ELSE [w EXCEPT
             !.rm = updatePosition(r.rm, "Buy", quantity),
             !.om = c.om,
             !.threads = sendOrder(w.threads, "Buy", price, quantity, c.ret),
             !.log = w.log \o
                  <<Event("checkOrder", signal, price, quantity, 0, TRUE),
                    Event("createOrder", signal, price, quantity, c.ret, TRUE),
                    Event("sendOrder", signal, price, quantity, c.ret, TRUE),
                    Event("updatePosition", signal, price, quantity, c.ret, TRUE)>>]

\* Strategy::executeArbitrage(price1, price2, price3)
executeArbitrage(w, price1, price2, price3) ==
  Emit([w EXCEPT !.log = Append(w.log, Event("executeArbitrage", "arbitrage",
                                             price1, ArbitrageQty, 0, TRUE))],
       "arbitrage", price1, ArbitrageQty)

\* profit > 0.3 where profit = 100 / A / B * C - 100, for A, B, C > 0 and B
\* in hundredths: 10000 * C / (A * B) - 100 > 3 / 10
ProfitExceeds(btcUsdtAsk, ethBtcAsk, ethUsdtBid) ==
  100000 * ethUsdtBid > 1003 * btcUsdtAsk * ethBtcAsk

\* an arbitrage block that trades on profit > 0.3 alone
ArbitrageOnProfitOnly(w) ==
  LET btcUsdtAsk == getBestAsk(w.books[btcUsdtId_])
      ethBtcAsk == getBestAsk(w.books[ethBtcId_])
      ethUsdtBid == getBestBid(w.books[ethUsdtId_])
  IN IF btcUsdtAsk > 0 /\ ethBtcAsk > 0 /\ ethUsdtBid > 0
        /\ ProfitExceeds(btcUsdtAsk, ethBtcAsk, ethUsdtBid)
     THEN [executeArbitrage(w, btcUsdtAsk, ethBtcAsk, ethUsdtBid)
             EXCEPT !.traded = TRUE]
     ELSE w

\* onMarketData, the arbitrage block:
\* if (A > 0 && B > 0 && C > 0) { ...
\*   if (profit > 0.3 || !tradeExecuted_) { executeArbitrage(A, B, C);
\*                                          tradeExecuted_ = true; } }
Arbitrage(w) ==
  LET btcUsdtAsk == getBestAsk(w.books[btcUsdtId_])
      ethBtcAsk == getBestAsk(w.books[ethBtcId_])
      ethUsdtBid == getBestBid(w.books[ethUsdtId_])
  IN IF btcUsdtAsk > 0 /\ ethBtcAsk > 0 /\ ethUsdtBid > 0
        /\ (ProfitExceeds(btcUsdtAsk, ethBtcAsk, ethUsdtBid) \/ ~w.traded)
     THEN [executeArbitrage(w, btcUsdtAsk, ethBtcAsk, ethUsdtBid)
             EXCEPT !.traded = TRUE]
     ELSE w

\* a threshold that lets the imbalance 0.8 itself through
ImbalanceExceedsAtLimit(bidQty, askQty) ==
  10 * (bidQty - askQty) >= 8 * (bidQty + askQty)

\* imbalance > 0.8 where imbalance = (bidQty - askQty) / totalQty, totalQty > 0
ImbalanceExceeds(bidQty, askQty) ==
  10 * (bidQty - askQty) > 8 * (bidQty + askQty)

\* Strategy::checkAlphaSignal(symId)
checkAlphaSignal(w, symId) ==
  IF symId # btcUsdtId_ THEN w
  ELSE LET book == w.books[symId]
           bidQty == getBestBidQty(book)
           askQty == getBestAskQty(book)
       IN IF bidQty + askQty <= 0 THEN w
          ELSE IF ImbalanceExceeds(bidQty, askQty)
          THEN Emit(w, "alpha", getBestAsk(book), AlphaQty)
          ELSE w

\* Strategy::onMarketData(ticker)
onMarketData(w, ticker) ==
  LET symId == SymbolIdOf(ticker.symbol) IN
    IF symId \notin DOMAIN w.books THEN w
    ELSE LET book == updateAsk(updateBid(w.books[symId], ticker.best_bid_price,
                                         ticker.best_bid_qty),
                               ticker.best_ask_price, ticker.best_ask_qty)
             updated == [w EXCEPT !.books[symId] = book]
         IN checkAlphaSignal(Arbitrage(updated), symId)

\* the tickers of the feed: BTCUSDT at 19990 / 20000 with an imbalance of
\* 0.9, of 0.8, and with both levels removed; ETHBTC at 0.04 / 0.05; ETHUSDT
\* at 1010 / 1011 (profit 1.0), at 1003 / 1004 (profit 0.3) and with the bid
\* level 1010 removed; and a symbol that has no book
Ticker(symbol, bidPrice, bidQty, askPrice, askQty) ==
  [symbol |-> symbol, best_bid_price |-> bidPrice, best_bid_qty |-> bidQty,
   best_ask_price |-> askPrice, best_ask_qty |-> askQty]
Tickers ==
  {Ticker("BTCUSDT", 19990, 19, 20000, 1),
   Ticker("BTCUSDT", 19990, 9, 20000, 1),
   Ticker("BTCUSDT", 19990, 0, 20000, 0),
   Ticker("ETHBTC", 4, 1, 5, 1),
   Ticker("ETHUSDT", 1010, 1, 1011, 1),
   Ticker("ETHUSDT", 1003, 1, 1004, 1),
   Ticker("ETHUSDT", 1010, 0, 1011, 1),
   Ticker("BNBUSDT", 300, 1, 301, 1)}

\* a ticker as the exchange sends it: the book it quotes is not crossed and
\* both its levels have a quantity
SoundTicker(ticker) ==
  /\ ticker.best_bid_price < ticker.best_ask_price
  /\ ticker.best_bid_qty > 0
  /\ ticker.best_ask_qty > 0

\* everything onMarketData touches, before the call
World ==
  [books |-> orderBooks_, traded |-> tradeExecuted_, rm |-> RiskState,
   om |-> OMState, threads |-> inFlight, log |-> <<>>]

\* the strategy thread handles one ticker of the feed
MarketDataFrom(feed) ==
  /\ \E ticker \in feed :
       LET w == onMarketData(World, ticker) IN
         /\ orderBooks_' = w.books
         /\ soundFeed' = (soundFeed /\ SoundTicker(ticker))
         /\ tradeExecuted_' = w.traded
         /\ SetRiskState(w.rm)
         /\ orders_' = w.om.orders_
         /\ nextOrderId_' = w.om.nextOrderId_
         /\ pool_' = w.om.pool_
         /\ freeList_' = w.om.freeList_
         /\ inFlight' = w.threads
         /\ tickLog' = <<Event("onMarketData", ticker.symbol, 0, 0, 0, TRUE)>>
                       \o w.log
  /\ UNCHANGED <<now, riskCall, lastCall, execCallback_, finished, queueVars,
                 runVars, libVars>>

MarketData == MarketDataFrom(Tickers)

\* the feed with, in addition, a BTCUSDT ticker that has a bid and no
\* quantity at the ask
OneSidedTickers == Tickers \cup {Ticker("BTCUSDT", 19990, 19, 20000, 0)}

\* the strategy thread handles one ticker of that feed, while the order pool
\* has a free cell
MarketDataOneSided ==
  /\ freeList_ # <<>>
  /\ MarketDataFrom(OneSidedTickers)

OneSidedNext ==
  \/ MarketDataOneSided

\* the strategy is followed within the rate window its risk manager was
\* constructed in
StrategyNext ==
  \/ MarketData

\* the assembled program is followed while the order pool has a free cell
MarketDataWhilePoolLasts ==
  /\ freeList_ # <<>>
  /\ MarketData

SystemNext ==
  \/ MarketDataWhilePoolLasts
  \/ GatewayThread

(***************************************************************************)
(* Strategy::run, the feed and the shutdown of main                        *)
(* The producer and the consumer each make one queue operation per step    *)
(* (a push and a pop each take effect at their one release store), the     *)
(* feed numbers its tickers with FeedUpdateIds round and round, and the    *)
(* histories of the queue are not kept, so that a feed that never ends is  *)
(* a behaviour of a finite model.  What onMarketData does to the books     *)
(* and the orders has no influence on the loop and is left out.            *)
(***************************************************************************)
\* the feed's numbering of its tickers
FeedUpdateIds == {1, 2}
TickAfter(n) == IF n + 1 \in FeedUpdateIds THEN n + 1 ELSE 1

\* the network thread invokes the callback of main.cpp: the ticker is pushed,
\* or dropped when the ring is full; ioc.run() serves the feed until
\* ioc.stop()
FeedCallback ==
  /\ mpc # "join"
  /\ nextTick' = TickAfter(nextTick)
  /\ IF PushIsFull(NextIndex(tail_), head_)
     THEN /\ pushRet' = "false"
          /\ UNCHANGED <<buffer_, tail_>>
     ELSE /\ buffer_' = [buffer_ EXCEPT
                           ![PushSlot(tail_, NextIndex(tail_))] = Tick(nextTick)]
          /\ tail_' = NextIndex(tail_)
          /\ pushRet' = "true"
  /\ UNCHANGED <<head_, ppc, push_item, push_current_tail, push_next_tail,
                 consumerVars, accepted, delivered, dropped, runVars, restOfRun>>

\* a run that returns without printing the report
RunExitSilent == "returned"

\* run: the statement after the outer loop
RunExit == "report"

\* run: while (running_)
RunWhile ==
  /\ rpc = "while_running"
  /\ rpc' = IF running_ THEN "pop" ELSE RunExit
  /\ UNCHANGED <<running_, handled, reports, owed, mpc, queueVars, restOfRun>>

\* run: while (queue.pop(ticker))
RunPop ==
  /\ rpc = "pop"
  /\ IF PopIsEmpty(head_, tail_)
     THEN /\ popRet' = "false"
          /\ rpc' = "yield"
          /\ UNCHANGED <<head_, pop_item>>
     ELSE /\ pop_item' = buffer_[PopSlot(head_)]
          /\ head_' = NextIndex(head_)
          /\ popRet' = "true"
          /\ rpc' = "on_market_data"
  /\ UNCHANGED <<tail_, buffer_, producerVars, cpc, pop_current_head, accepted,
                 delivered, dropped, running_, handled, reports, owed, mpc,
                 restOfRun>>

\* run: latencyMonitor_.start(); onMarketData(ticker); latencyMonitor_.stop()
RunOnMarketData ==
  /\ rpc = "on_market_data"
  /\ handled' = pop_item.update_id
  /\ owed' = IF owed > 0 THEN owed - 1 ELSE 0
  /\ rpc' = "pop"
  /\ UNCHANGED <<running_, reports, mpc, queueVars, restOfRun>>

\* run: std::this_thread::yield()
RunYield ==
  /\ rpc = "yield"
  /\ rpc' = "while_running"
  /\ UNCHANGED <<running_, handled, reports, owed, mpc, queueVars, restOfRun>>

\* run: latencyMonitor_.report(), and the return
RunReport ==
  /\ rpc = "report"
  /\ reports' = reports + 1
  /\ rpc' = "returned"
  /\ UNCHANGED <<running_, handled, owed, mpc, queueVars, restOfRun>>

\* the steps of the strategy thread
RunStep ==
  \/ RunWhile
  \/ RunPop
  \/ RunOnMarketData
  \/ RunYield
  \/ RunReport

\* the strategy thread, at the pop of its loop, takes a ticker of the feed
\* and handles it (while the order pool has a free cell)
RunHandlesTicker ==
  /\ rpc = "pop"
  /\ freeList_ # <<>>
  /\ MarketData

\* main: both joins have returned (the network thread ends with ioc.stop())
\* and main leaves the try block, which destroys strategy, orderManager,
\* riskManager, orderGateway and the queue, and returns 0; no detached thread
\* is waited for
MainLeavesBlock ==
  /\ mpc = "join"
  /\ rpc = "returned"
  /\ mpc' = "return"
  /\ destroyed' = TRUE
  /\ UNCHANGED <<running_, rpc, handled, reports, owed, queueVars, omVars,
                 riskVars, strategyVars, gatewayVars, bookVars, latencyVars,
                 symbolVars, poolVars, snapVars>>

\* the tickers that were pushed and that run has not handled: those in the
\* ring and the one popped for an onMarketData that has not been made
Unhandled ==
  BitAnd(tail_ + Capacity - head_, Capacity - 1)
    + (IF rpc = "on_market_data" THEN 1 ELSE 0)

\* main: std::cin.get() returns and strategy.stop() stores running_ = false;
\* n is what the step records in owed
Stop(n) ==
  /\ mpc = "cin_get"
  /\ running_' = FALSE
  /\ owed' = n
  /\ mpc' = "ioc_stop"
  /\ UNCHANGED <<rpc, handled, reports, queueVars, restOfRun>>

\* stop(), nothing recorded
StrategyStop == Stop(owed)

\* stop(), with the tickers that are unhandled at that moment recorded
StrategyStopCounted == Stop(Unhandled)

\* main: ioc.stop(); the network thread makes no further callback
IocStop ==
  /\ mpc = "ioc_stop"
  /\ mpc' = "join"
  /\ UNCHANGED <<running_, rpc, handled, reports, owed, queueVars, restOfRun>>

\* the assembled program from its start to the return of main: the strategy
\* thread handles tickers, the detached threads of the gateway wake up, and
\* main shuts down
ShutdownNext ==
  \/ RunWhile
  \/ RunPop
  \/ RunHandlesTicker
  \/ RunYield
  \/ RunReport
  \/ GatewayThread
  \/ StrategyStop
  \/ IocStop
  \/ MainLeavesBlock

RunNext ==
  \/ FeedCallback
  \/ RunWhile
  \/ RunPop
  \/ RunOnMarketData
  \/ RunYield
  \/ RunReport
  \/ StrategyStop
  \/ IocStop

\* the same steps, with the tickers that stop() leaves unhandled counted
DrainNext ==
  \/ FeedCallback
  \/ RunWhile
  \/ RunPop
  \/ RunOnMarketData
  \/ RunYield
  \/ RunReport
  \/ StrategyStopCounted
  \/ IocStop

QueueInit ==
  /\ head_ = 0
  /\ tail_ = 0
  /\ buffer_ = [i \in Slots |-> DefaultTick]
  /\ ppc = "idle"
  /\ push_item = DefaultTick
  /\ push_current_tail = 0
  /\ push_next_tail = 0
  /\ pushRet = "none"
  /\ nextTick = 1
  /\ cpc = "idle"
  /\ pop_current_head = 0
  /\ pop_item = DefaultTick
  /\ popRet = "none"
  /\ accepted = <<>>
  /\ delivered = <<>>
  /\ dropped = <<>>

OMInit ==
  /\ orders_ = [id \in {} |-> NullPtr]
  /\ nextOrderId_ = 1
  /\ pool_ = [cell \in Cells |-> DefaultOrder]
  /\ freeList_ = [i \in 1..PoolSize |-> i - 1]
  /\ lastCall = [op |-> "none"]

\* RiskManager(): lastCheckTime_(steady_clock::now()); the clock is read from
\* the construction on
RiskInit ==
  /\ currentPosition_ = 0
  /\ now = 0
  /\ lastCheckTime_ = now
  /\ ordersInWindow_ = 0
  /\ riskCall = [op |-> "none"]

\* Strategy(): three empty books; bool tradeExecuted_{false}
StrategyInit ==
  /\ orderBooks_ = [id \in BookIds |-> EmptyBook]
  /\ tradeExecuted_ = FALSE
  /\ tickLog = <<>>
  /\ soundFeed = TRUE

\* OrderGateway(): execCallback_ is empty, and main never calls
\* setExecCallback
GatewayInit ==
  /\ execCallback_ = NoCallback
  /\ inFlight = EmptyBag
  /\ finished = {}

\* std::atomic<bool> running_{true}; the strategy thread enters run and the
\* main thread waits in std::cin.get()
RunInit ==
  /\ running_ = TRUE
  /\ rpc = "while_running"
  /\ handled = 0
  /\ reports = 0
  /\ owed = 0
  /\ mpc = "cin_get"

\* OrderBook(symbol): no call made yet
BookInit ==
  /\ orderBook = EmptyBook
  /\ bookCall = [op |-> "none", price |-> 0, quantity |-> 0,
                 before |-> EmptyBook]

\* LatencyMonitor(name): count_(0), min_(UINT64_MAX), max_(0), buckets 0
LatencyInit ==
  /\ count_ = 0
  /\ min_ = UINT64_MAX
  /\ max_ = 0
  /\ buckets_ = [i \in {} |-> 0]
  /\ samples = <<>>
  /\ printed = [count |-> 0, min |-> 0, max |-> 0, percentiles |-> FALSE,
                 p50 |-> 0, p99 |-> 0, p999 |-> 0]

\* SymbolManager(): nextId_(0), both tables empty
SymbolInit ==
  /\ nextId_ = 0
  /\ symbolToId_ = [n \in {} |-> 0]
  /\ idToSymbol_ = <<>>
  /\ symCall = [op |-> "none", name |-> "", id |-> 0]

\* ObjectPool(): every cell is free
PoolInit ==
  /\ live = {}
  /\ poolCall = [op |-> "none", obj |-> NullPtr]

\* no thread is inside the order manager
SnapInit ==
  /\ mutex_ = "free"
  /\ reporter = Idle
  /\ reader = Idle

\* main has entered its try block and constructed the objects
LifeInit == destroyed = FALSE

LibInit ==
  BookInit /\ LatencyInit /\ SymbolInit /\ PoolInit /\ SnapInit /\ LifeInit

Init ==
  /\ QueueInit /\ OMInit /\ RiskInit /\ StrategyInit /\ GatewayInit /\ RunInit
  /\ LibInit

QueueNext ==
  \/ Callback
  \/ PushLoadTail
  \/ PushCheckFull
  \/ PushWriteFirst
  \/ PushWriteLast
  \/ PushPublish
  \/ CallbackReturn
  \/ PopLoadHead
  \/ PopCheckEmpty
  \/ PopReadFirst
  \/ PopReadLast
  \/ PopPublish

SpecQueue == Init /\ [][QueueNext]_vars

SpecOM == Init /\ [][OMNext]_vars

SpecRisk == Init /\ [][RiskNext]_vars

SpecStrategy == Init /\ [][StrategyNext]_vars

SpecSystem == Init /\ [][SystemNext]_vars

SpecOneSided == Init /\ [][OneSidedNext]_vars

\* the strategy thread is scheduled fairly; nothing is assumed of the feed
\* nor of the main thread
SpecRun == Init /\ [][RunNext]_vars /\ WF_vars(RunStep)

\* the program while main waits in std::cin.get(): the feed pushes, the
\* strategy thread runs and is scheduled fairly
RunningNext ==
  \/ FeedCallback
  \/ RunWhile
  \/ RunPop
  \/ RunOnMarketData
  \/ RunYield

SpecRunning == Init /\ [][RunningNext]_vars /\ WF_vars(RunStep)

SpecDrain == Init /\ [][DrainNext]_vars

SpecShutdown == Init /\ [][ShutdownNext]_vars

\* the position is the sum of the quantities of the approved candidates, each
\* 0.001 or 0.01: on a long enough feed the strategy holds every multiple of
\* 0.001 up to the limit.  The strategy is followed from the positions one
\* alpha order, and one alpha and one arbitrage order, below maxPosition_
ExposureStarts == {maxPosition_ - AlphaQty - ArbitrageQty, maxPosition_ - AlphaQty}
ExposureInit ==
  /\ QueueInit /\ OMInit /\ StrategyInit /\ GatewayInit /\ RunInit /\ LibInit
  /\ currentPosition_ \in ExposureStarts
  /\ now = 0
  /\ lastCheckTime_ = now
  /\ ordersInWindow_ = 0
  /\ riskCall = [op |-> "none"]

SpecExposure == ExposureInit /\ [][StrategyNext]_vars

SpecBook == Init /\ [][BookNext]_vars

SpecLatency == Init /\ [][LatencyNext]_vars

SpecSymbols == Init /\ [][SymbolNext]_vars

SpecPool == Init /\ [][PoolNext]_vars

SpecSnap == Init /\ [][SnapNext]_vars

(***************************************************************************)
(* Claims about the ring buffer (checked under SpecQueue)                  *)
(***************************************************************************)
\* accepted-but-unpopped items
Queued == Len(accepted) - Len(delivered)

PopReading == cpc \in {"pop_read_first", "pop_read_last"}

\* C1: with one producer and one consumer, under every interleaving the items
\* returned by successful pops are a prefix of the items accepted by
\* successful pushes (nothing lost, duplicated or reordered), and while pop
\* copies a slot that slot holds the completely written next item.
C1_FifoPrefix ==
  /\ IsPrefix(delivered, accepted)
  /\ PopReading =>
       /\ Len(delivered) < Len(accepted)
       /\ buffer_[PopSlot(pop_current_head)] = accepted[Len(delivered) + 1]

\* C1 witness: producer and consumer are both in the middle of a slot copy
\* after the indices have wrapped around the ring.
C1_Witness ==
  /\ ppc = "push_write_last"
  /\ cpc = "pop_read_last"
  /\ Len(delivered) >= Capacity
  /\ delivered = SubSeq(accepted, 1, Len(delivered))

\* C2: the queue never holds more than Capacity-1 accepted-but-unpopped
\* items; with no pop in progress push finds the queue full exactly when
\* Capacity-1 items are queued, and with no push in progress pop finds it
\* empty exactly when none is queued.
C2_UsableCapacity ==
  /\ [](Queued <= Capacity - 1)
  /\ [][(ppc = "push_check" /\ ppc' # ppc /\ cpc = "idle")
          => ((pushRet' = "false") <=> (Queued = Capacity - 1))]_vars
  /\ [][(cpc = "pop_check" /\ cpc' # cpc /\ ppc \in {"idle", "callback_ret"})
          => ((popRet' = "false") <=> (Queued = 0))]_vars

\* C2 witness: Capacity-1 pushes were accepted and the next one was rejected,
\* then Capacity-1 pops succeeded and the next one reported empty.
C2_Witness ==
  /\ accepted = [i \in 1..(Capacity - 1) |-> Tick(i)]
  /\ dropped = <<Tick(Capacity)>>
  /\ delivered = accepted
  /\ popRet = "false"
  /\ ppc = "idle"
  /\ cpc = "idle"

\* C3: a push that finds the queue full returns false and changes neither
\* tail_, head_ nor any slot; the callback then discards that tick (no
\* retry, no waiting: the producer is idle again), a discarded tick is never
\* accepted, and what was queued is still delivered in order.
C3_FullDropsTick ==
  /\ [][(ppc = "push_check" /\ ppc' = "callback_ret")
          => /\ pushRet' = "false"
             /\ UNCHANGED <<head_, tail_, buffer_, accepted, delivered>>]_vars
  /\ [][(ppc = "callback_ret" /\ pushRet = "false" /\ ppc' # ppc)
          => /\ ppc' = "idle"
             /\ dropped' = Append(dropped, push_item)
             /\ UNCHANGED <<head_, tail_, buffer_, accepted, delivered>>]_vars
  /\ [](Range(dropped) \cap Range(accepted) = {})
  /\ [](pushRet = "false" => push_item \notin Range(accepted))
  /\ [](IsPrefix(delivered, accepted))

\* C3 witness: a tick was dropped on a full queue, and everything accepted
\* before and after it has been delivered.
C3_Witness ==
  /\ dropped # <<>>
  /\ delivered = accepted
  /\ Len(delivered) >= Capacity
  /\ \E i \in 1..Len(delivered) :
        /\ delivered[i].update_id > dropped[1].update_id
        /\ i >= Capacity

(***************************************************************************)
(* Claims about the order manager (checked under SpecOM)                   *)
(***************************************************************************)
Terminal == {"Filled", "Canceled", "Rejected"}

\* the Order record an id of the registry resolves to
OrderOf(id) == pool_[orders_[id]]

\* this step is a call of onExecutionReport / of createOrder
ReportStep == lastCall'.op = "onExecutionReport"
CreateStep == lastCall'.op = "createOrder"

\* this step applies a report of the given exec type to an order that is in
\* the registry and not in a terminal state
AppliesToLive(execType) ==
  /\ ReportStep
  /\ lastCall'.report.execType = execType
  /\ lastCall'.report.orderId \in DOMAIN orders_
  /\ OrderOf(lastCall'.report.orderId).state \notin Terminal

\* C4: once an order is Filled, Canceled or Rejected, no later report for it
\* changes its state or its filledQuantity.
C4_TerminalIsFinal ==
  [][\A id \in DOMAIN orders_ :
       OrderOf(id).state \in Terminal =>
         /\ pool_'[orders_[id]].state = OrderOf(id).state
         /\ pool_'[orders_[id]].filledQuantity = OrderOf(id).filledQuantity]_vars

\* C5: every order of the registry has 0 <= filledQuantity <= quantity.
C5_FilledWithinQuantity ==
  \A id \in DOMAIN orders_ :
    /\ 0 <= OrderOf(id).filledQuantity
    /\ OrderOf(id).filledQuantity <= OrderOf(id).quantity

\* C6: a PartialFill report applied to a known, non-terminal order leaves it
\* with filledQuantity = cumQty and state PartiallyFilled.
C6_PartialFillApplied ==
  [][AppliesToLive("PartialFill") =>
       /\ pool_'[orders_[lastCall'.report.orderId]].filledQuantity =
            lastCall'.report.cumQty
       /\ pool_'[orders_[lastCall'.report.orderId]].state =
            "PartiallyFilled"]_vars

\* C7: a Fill report applied to a known, non-terminal order leaves it Filled
\* with filledQuantity = cumQty, whatever orderState the report carries.
C7_FillApplied ==
  [][AppliesToLive("Fill") =>
       /\ pool_'[orders_[lastCall'.report.orderId]].filledQuantity =
            lastCall'.report.cumQty
       /\ pool_'[orders_[lastCall'.report.orderId]].state = "Filled"]_vars

\* C8: a report whose orderId is not in the registry changes no order, nor
\* the registry, the pool or the next order id.
C8_UnknownIdIgnored ==
  [][(ReportStep /\ lastCall'.report.orderId \notin DOMAIN orders_)
       => UNCHANGED <<orders_, pool_, freeList_, nextOrderId_>>]_vars

\* C8 witness: the last call was a report for an id that is not registered,
\* made while the registry holds an order that earlier reports had changed.
C8_Witness ==
  /\ lastCall.op = "onExecutionReport"
  /\ lastCall.report.orderId \notin DOMAIN orders_
  /\ \E id \in DOMAIN orders_ : OrderOf(id).filledQuantity > 0

\* C9: createOrder returns -1 exactly when the pool has no free cell, and
\* then consumes no id and leaves registry and pool alone; otherwise it
\* returns the next id, which is greater than every id returned before (the
\* ids returned so far are 1 .. nextOrderId_-1), and registers under it an order
\* with that id, state New and filledQuantity 0.
C9_CreateOrder ==
  /\ [](DOMAIN orders_ = 1..(nextOrderId_ - 1))
  /\ [][CreateStep =>
          /\ (lastCall'.ret = -1) <=> (freeList_ = <<>>)
          /\ lastCall'.ret = -1 =>
               UNCHANGED <<orders_, pool_, freeList_, nextOrderId_>>
          /\ lastCall'.ret # -1 =>
               /\ lastCall'.ret = nextOrderId_
               /\ \A id \in DOMAIN orders_ : lastCall'.ret > id
               /\ DOMAIN orders_' = DOMAIN orders_ \cup {lastCall'.ret}
               /\ pool_'[orders_'[lastCall'.ret]].orderId = lastCall'.ret
               /\ pool_'[orders_'[lastCall'.ret]].state = "New"
               /\ pool_'[orders_'[lastCall'.ret]].filledQuantity = 0
               /\ \A id \in DOMAIN orders_ :
                    /\ orders_'[id] = orders_[id]
                    /\ pool_'[orders_[id]] = pool_[orders_[id]]]_vars

\* C9 witness: every cell is taken, ids 1..PoolSize were returned, and the
\* last createOrder returned -1.
C9_Witness ==
  /\ lastCall = [op |-> "createOrder", ret |-> -1]
  /\ freeList_ = <<>>
  /\ DOMAIN orders_ = 1..PoolSize
  /\ nextOrderId_ = PoolSize + 1

\* C10: an id of the registry resolves through getOrder to the same cell
\* after every later call, that cell still holds the order of that id and is
\* never on the free list, and no cell ever returns to the free list.
C10_NeverRecycled ==
  /\ [][\A id \in DOMAIN orders_ :
          /\ getOrder(id) # NullPtr
          /\ getOrder(id)' = getOrder(id)
          /\ pool_'[getOrder(id)].orderId = id]_vars
  /\ [][Range(freeList_') \subseteq Range(freeList_)]_vars
  /\ [](\A id \in DOMAIN orders_ :
          /\ getOrder(id) \in Cells \ Range(freeList_)
          /\ OrderOf(id).orderId = id)

\* C10 witness: all cells are held by orders in terminal states, and a
\* createOrder has just failed because no cell came back to the pool.
C10_Witness ==
  /\ lastCall = [op |-> "createOrder", ret |-> -1]
  /\ DOMAIN orders_ = 1..PoolSize
  /\ \A id \in DOMAIN orders_ : OrderOf(id).state \in Terminal
  /\ \E id \in DOMAIN orders_ : OrderOf(id).state = "Canceled"

(***************************************************************************)
(* Claims about the risk manager (checked under SpecRisk)                  *)
(***************************************************************************)
\* the step is a call of checkOrder (the clock stands still during a call)
CheckStep == riskCall'.op = "checkOrder" /\ now' = now

\* the first three checks of the call c pass on a manager at position
SizeOk(c) == c.quantity <= 10000
PositionOk(c, position) ==
  LET projected == IF c.side = "Buy" THEN position + c.quantity
                   ELSE position - c.quantity
  IN projected <= 100000 /\ projected >= -100000
PriceOk(c) ==
  \/ c.currentMarketPrice <= 0
  \/ /\ 100 * (c.price - c.currentMarketPrice) <= 5 * c.currentMarketPrice
     /\ 100 * (c.currentMarketPrice - c.price) <= 5 * c.currentMarketPrice
OtherwiseValid(c, position) == SizeOk(c) /\ PositionOk(c, position) /\ PriceOk(c)

\* the orders counted in the window once an expired window has been reset
CountAfterReset ==
  IF now - lastCheckTime_ >= 1000 THEN 0 ELSE ordersInWindow_

\* C12: checkOrder approves exactly when the quantity is at most
\* maxOrderSize, the projected position is within maxPosition in absolute
\* value, the price is within maxPriceDeviation of a positive reference price
\* (bounds inclusive) and, after the reset of an expired window, fewer than
\* maxOrderRate orders are counted; the checks are made in this order, the
\* message logged being that of the first that fails.  With reference 100.00,
\* 105.00 is within the collar and 105.01 is not.
C12_ApprovesIffAllFour ==
  [][CheckStep =>
       LET c == riskCall'
           rateOk == CountAfterReset < 10
       IN /\ c.ret <=> (OtherwiseValid(c, currentPosition_) /\ rateOk)
          /\ c.msg = (IF ~SizeOk(c) THEN "size"
                      ELSE IF ~PositionOk(c, currentPosition_) THEN "position"
                      ELSE IF ~PriceOk(c) THEN "price"
                      ELSE IF ~rateOk THEN "rate"
                      ELSE "none")
          /\ (c.currentMarketPrice = 10000 /\ c.price = 10501) => ~c.ret
          /\ (c.currentMarketPrice = 10000 /\ c.price = 10500 /\ SizeOk(c)
              /\ PositionOk(c, currentPosition_) /\ rateOk) => c.ret
    ]_vars

\* a Buy at 105.00 against a market price of 100.00 has been approved
C12_Witness ==
  /\ riskCall.op = "checkOrder"
  /\ riskCall.price = 10500
  /\ riskCall.currentMarketPrice = 10000
  /\ riskCall.ret

\* C13: at most maxOrderRate (10) approvals are counted between two window
\* resets; once ten are counted, an otherwise valid call is rejected while
\* the clock is less than 1 s past the window start, and the manager is left
\* as it was; an otherwise valid call at 1 s or more past the window start
\* resets the counter, starts the window at the clock reading and is
\* approved; every other approval adds one to the counter of its window.
C13_RateWindow ==
  [][/\ ordersInWindow_' <= 10
     /\ CheckStep =>
          LET c == riskCall'
              valid == OtherwiseValid(c, currentPosition_)
              expired == now - lastCheckTime_ >= 1000
          IN /\ (valid /\ ~expired /\ ordersInWindow_ = 10) =>
                  /\ ~c.ret
                  /\ UNCHANGED <<ordersInWindow_, lastCheckTime_>>
             /\ (valid /\ expired) =>
                  /\ c.ret
                  /\ ordersInWindow_' = 1
                  /\ lastCheckTime_' = now
             /\ (c.ret /\ ~expired) =>
                  /\ ordersInWindow_' = ordersInWindow_ + 1
                  /\ lastCheckTime_' = lastCheckTime_
             /\ currentPosition_' = currentPosition_
    ]_vars

\* the eleventh otherwise valid call of a window has been rejected
C13_Witness ==
  /\ riskCall.op = "checkOrder"
  /\ riskCall.msg = "rate"
  /\ ordersInWindow_ = 10
  /\ now - lastCheckTime_ < 1000

(***************************************************************************)
(* Claims about the strategy (checked under SpecStrategy)                  *)
(***************************************************************************)
\* the step is an onMarketData (a gateway thread that ends leaves inFlight)
TickStep ==
  /\ tickLog' # <<>>
  /\ BagCardinality(inFlight') >= BagCardinality(inFlight)

\* the places of the calls ev made for the candidate of signal in a log
Calls(log, ev, signal) ==
  {i \in DOMAIN log : log[i].ev = ev /\ log[i].signal = signal}

Signals == {"arbitrage", "alpha"}

\* C11: when createOrder returned -1 for a candidate, the strategy calls
\* neither sendOrder nor updatePosition for that candidate.
C11_ExhaustionRefused ==
  \A signal \in Signals :
    (\E i \in Calls(tickLog, "createOrder", signal) : tickLog[i].id = -1)
      => /\ Calls(tickLog, "sendOrder", signal) = {}
         /\ Calls(tickLog, "updatePosition", signal) = {}

\* the best prices of the arbitrage and the best quantities of BTCUSDT once
\* the tick is in the books
AskA == getBestAsk(orderBooks_'[0])
AskB == getBestAsk(orderBooks_'[1])
BidC == getBestBid(orderBooks_'[2])
TrackedTick == tickLog'[1].signal \in {"BTCUSDT", "ETHBTC", "ETHUSDT"}
Profitable ==
  /\ AskA > 0 /\ AskB > 0 /\ BidC > 0
  /\ 100000 * BidC > 1003 * AskA * AskB

\* the arbitrage candidates of the tick are those in want, each a Buy of
\* BTCUSDT at A of quantity 0.001 handed to the risk gate
ArbitrageCandidates(want) ==
  /\ Cardinality(Calls(tickLog', "executeArbitrage", "arbitrage")) = want
  /\ Cardinality(Calls(tickLog', "checkOrder", "arbitrage")) = want
  /\ \A i \in Calls(tickLog', "checkOrder", "arbitrage") :
       /\ tickLog'[i].side = "Buy"
       /\ tickLog'[i].price = AskA
       /\ tickLog'[i].quantity = 1

\* C17 as stated: a tick emits an arbitrage candidate (Buy BTCUSDT at A,
\* quantity 0.001) only if A, B and C are positive and the profit
\* 100 / A / B * C - 100 exceeds 0.30, and then it emits exactly one.
C17_OnlyWhenProfitable ==
  [][(TickStep /\ TrackedTick) =>
       ArbitrageCandidates(IF Profitable THEN 1 ELSE 0)]_vars

\* C17, amended: a tick of one of the three symbols of the strategy emits an
\* arbitrage candidate (Buy BTCUSDT at A, quantity 0.001) exactly when A, B
\* and C are positive and either the profit exceeds 0.30 or no tick has
\* emitted an arbitrage candidate before (tradeExecuted_ is false); it then
\* emits exactly one, and tradeExecuted_ is true afterwards.  A tick of
\* another symbol emits none.
C17_ProfitableOrFirst ==
  [][TickStep =>
       LET forced == AskA > 0 /\ AskB > 0 /\ BidC > 0 /\ ~tradeExecuted_
           emits == TrackedTick /\ (Profitable \/ forced)
       IN /\ ArbitrageCandidates(IF emits THEN 1 ELSE 0)
          /\ tradeExecuted_' = (tradeExecuted_ \/ emits)]_vars

\* a tick with A = 20000, B = 0.05 and C = 1010 has emitted its one
\* candidate, and not as the first arbitrage candidate of the run
C17_Witness ==
  /\ Cardinality(Calls(tickLog, "executeArbitrage", "arbitrage")) = 1
  /\ getBestAsk(orderBooks_[0]) = 20000
  /\ getBestAsk(orderBooks_[1]) = 5
  /\ getBestBid(orderBooks_[2]) = 1010
  /\ \E thread \in BagToSet(inFlight) :
       thread.quantity = 1 /\ CopiesIn(thread, inFlight) >= 2

\* C18: a tick produces an imbalance candidate (Buy BTCUSDT at the best ask,
\* quantity 0.01) only if its symbol is BTCUSDT and
\* I = (bidQty - askQty) / (bidQty + askQty) exceeds 0.8 at the best levels;
\* a tick of another symbol, and a BTCUSDT tick with bidQty + askQty <= 0 or
\* I <= 0.8, produces none.
C18_ImbalanceCandidate ==
  [][TickStep =>
       LET bidQty == getBestBidQty(orderBooks_'[0])
           askQty == getBestAskQty(orderBooks_'[0])
           strong == /\ tickLog'[1].signal = "BTCUSDT"
                     /\ bidQty + askQty > 0
                     /\ 10 * (bidQty - askQty) > 8 * (bidQty + askQty)
           candidates == Calls(tickLog', "checkOrder", "alpha")
       IN /\ Cardinality(candidates) = (IF strong THEN 1 ELSE 0)
          /\ \A i \in candidates :
               /\ tickLog'[i].side = "Buy"
               /\ tickLog'[i].price = getBestAsk(orderBooks_'[0])
               /\ tickLog'[i].quantity = 10]_vars

\* a BTCUSDT tick with an imbalance of 0.9 has produced its candidate
C18_Witness ==
  /\ tickLog # <<>>
  /\ tickLog[1].signal = "BTCUSDT"
  /\ Calls(tickLog, "checkOrder", "alpha") # {}
  /\ getBestBidQty(orderBooks_[0]) = 19
  /\ getBestAskQty(orderBooks_[0]) = 1

\* C19: a candidate the risk gate rejected is skipped: no order is created
\* for it, nothing is sent to the gateway and the position is not updated;
\* an order reaches the gateway only after checkOrder approved that side,
\* price and quantity, and the tick changes the order manager, the gateway
\* and the position by its approved candidates only.
C19_RejectedIsSkipped ==
  [][TickStep =>
       LET log == tickLog'
           approved == {i \in DOMAIN log : log[i].ev = "checkOrder" /\ log[i].ret}
           quantityAt == [i \in approved |-> log[i].quantity]
       IN /\ \A i \in DOMAIN log :
               (log[i].ev = "checkOrder" /\ ~log[i].ret) =>
                 /\ Calls(log, "createOrder", log[i].signal) = {}
                 /\ Calls(log, "sendOrder", log[i].signal) = {}
                 /\ Calls(log, "updatePosition", log[i].signal) = {}
          /\ \A i \in DOMAIN log :
               log[i].ev = "sendOrder" =>
                 \E j \in approved :
                   /\ j < i
                   /\ log[j].signal = log[i].signal
                   /\ log[j].side = log[i].side
                   /\ log[j].price = log[i].price
                   /\ log[j].quantity = log[i].quantity
          /\ BagCardinality(inFlight') =
               BagCardinality(inFlight) + Cardinality(approved)
          /\ currentPosition_' = currentPosition_ + SumOver(approved, quantityAt)
          /\ approved = {} => UNCHANGED <<orders_, nextOrderId_, pool_, freeList_>>
    ]_vars

\* the risk gate has rejected a candidate (the eleventh of the rate window)
C19_Witness ==
  \E i \in DOMAIN tickLog :
    /\ tickLog[i].ev = "checkOrder"
    /\ ~tickLog[i].ret
    /\ ordersInWindow_ = 10

(***************************************************************************)
(* Claims about the gateway in the assembled program (checked under        *)
(* SpecSystem)                                                             *)
(***************************************************************************)
\* C15: the detached thread of every sendOrder call invokes the execution
\* callback exactly once, with the orderId of the call, execType Fill,
\* orderState Filled, cumQty = quantity and lastPrice = price; stated of the
\* threads that have ended.
C15_CallbackOncePerSend ==
  \A f \in finished :
    /\ Len(f.callbacks) = 1
    /\ f.callbacks[1].orderId = f.thread.orderId
    /\ f.callbacks[1].execType = "Fill"
    /\ f.callbacks[1].orderState = "Filled"
    /\ f.callbacks[1].cumQty = f.thread.quantity
    /\ f.callbacks[1].lastPrice = f.thread.price

\* C16: every order the strategy created and dispatched has its execution
\* report applied by the order manager, so that it is Filled with
\* filledQuantity = quantity; stated of the orders whose gateway thread has
\* ended.
C16_DispatchedOrderFilled ==
  \A f \in finished :
    f.thread.orderId \in DOMAIN orders_ =>
      /\ OrderOf(f.thread.orderId).state = "Filled"
      /\ OrderOf(f.thread.orderId).filledQuantity = OrderOf(f.thread.orderId).quantity

(***************************************************************************)
(* Claims about Strategy::run (checked under SpecRun)                      *)
(***************************************************************************)
\* run prints the report at most once, has printed it when it has returned,
\* and handles no ticker after it
ReportedOnceAtTheEnd ==
  /\ reports = (IF rpc = "returned" THEN 1 ELSE 0)
  /\ rpc = "returned" => UNCHANGED <<rpc, handled, head_, pop_item, reports>>

C21_StopDrainsQueue ==
  (rpc = "returned") => (owed = 0)

(***************************************************************************)
(* Claims about the order book (checked under SpecBook)                    *)
(***************************************************************************)
\* what a call of quantity q at price p must have done to the side it names
\* and to the best price of that side
LevelSet(before, after, p, q) ==
  /\ q = 0 => p \notin DOMAIN after
  /\ q > 0 => p \in DOMAIN after /\ after[p] = q
  /\ \A r \in (DOMAIN before \cup DOMAIN after) \ {p} :
       r \in DOMAIN before /\ r \in DOMAIN after /\ after[r] = before[r]

\* C22: after updateBid(p, 0) the price p is not a bid level; after
\* updateBid(p, q) with q > 0 the level p holds q and getBestBid() >= p; every
\* other bid level and the whole ask side are unchanged.  The same for
\* updateAsk, with getBestAsk() <= p.
C22_UpdateLevel ==
  [][LET p == bookCall'.price
         q == bookCall'.quantity
     IN  /\ bookCall'.op = "updateBid" =>
              /\ LevelSet(orderBook.bids_, orderBook'.bids_, p, q)
              /\ q > 0 => getBestBid(orderBook') >= p
              /\ orderBook'.asks_ = orderBook.asks_
         /\ bookCall'.op = "updateAsk" =>
              /\ LevelSet(orderBook.asks_, orderBook'.asks_, p, q)
              /\ q > 0 => getBestAsk(orderBook') <= p
              /\ orderBook'.bids_ = orderBook.bids_]_bookVars

\* bids 100 x 5 and 101 x 3, then updateBid(101, 0): the best bid is 100
C22_Witness ==
  /\ bookCall.op = "updateBid" /\ bookCall.price = 101 /\ bookCall.quantity = 0
  /\ bookCall.before.bids_ = [p \in {100, 101} |-> IF p = 100 THEN 5 ELSE 3]
  /\ getBestBid(bookCall.before) = 101
  /\ orderBook.bids_ = [p \in {100} |-> 5]
  /\ getBestBid(orderBook) = 100
  /\ DOMAIN orderBook.asks_ # {}

(***************************************************************************)
(* Claims about the books of the strategy (checked under SpecStrategy)     *)
(***************************************************************************)
\* C23: after any sequence of tickers that each have best_bid_price <
\* best_ask_price and positive quantities, no book of the strategy is
\* crossed: getBestBid() < getBestAsk() whenever both sides hold a level.
C23_NeverCrossed ==
  soundFeed =>
    \A id \in DOMAIN orderBooks_ :
      LET b == orderBooks_[id] IN
        (DOMAIN b.bids_ # {} /\ DOMAIN b.asks_ # {}) =>
          getBestBid(b) < getBestAsk(b)

(***************************************************************************)
(* Claims about the latency monitor (checked under SpecLatency)            *)
(***************************************************************************)
\* the samples recorded so far that fall into bucket i: those below 1 ms by
\* floor(ns / 100), those of 1 ms and more into bucket 9999
SamplesOf(i) ==
  {k \in 1..Len(samples) :
     \/ samples[k] < 1000000 /\ samples[k] \div 100 = i
     \/ samples[k] >= 1000000 /\ i = 9999}

\* C24: after any sequence of record calls the buckets sum to count_, every
\* sample below 1,000,000 ns is counted in bucket floor(ns / 100) and every
\* sample of 1 ms or more in the overflow bucket 9999.
C24_Histogram ==
  /\ count_ = Len(samples)
  /\ SumOver(DOMAIN buckets_, buckets_) = count_
  /\ DOMAIN buckets_ \subseteq 0..9999
  /\ \A i \in DOMAIN buckets_ \cup {samples[k] \div 100 : k \in 1..Len(samples)}
                              \cup {9999} :
       Bucket(buckets_, i) = Cardinality(SamplesOf(i))

\* three samples recorded: one in bucket 0, one in the last regular bucket
\* and one of exactly 1 ms in the overflow bucket, which then holds two
C24_Witness ==
  /\ count_ = 3
  /\ \E k \in 1..Len(samples) : samples[k] = 1000000
  /\ \E k \in 1..Len(samples) : samples[k] = 999999
  /\ \E k \in 1..Len(samples) : samples[k] = 99
  /\ Bucket(buckets_, 9999) = 2
  /\ Bucket(buckets_, 0) = 1

\* C25: for every non-empty set of samples the percentiles report prints
\* satisfy p50 <= p99 <= p99.9 and min <= p50 <= max.
C25_PercentilesOrdered ==
  printed.percentiles =>
    /\ printed.p50 <= printed.p99
    /\ printed.p99 <= printed.p999
    /\ printed.min <= printed.p50
    /\ printed.p50 <= printed.max

(***************************************************************************)
(* Claims about the symbol manager (checked under SpecSymbols)             *)
(***************************************************************************)
\* C26: getSymbol(getId(s)) = s; a repeated getId(s) returns the same id and
\* changes no table; distinct strings have distinct ids; the ids are
\* 0, 1, 2, ... in the order of first registration.
C26_Interner ==
  [][symCall'.op = "getId" =>
       LET name == symCall'.name
           id == symCall'.id
           known == DOMAIN symbolToId_
           after == [nextId_ |-> nextId_', symbolToId_ |-> symbolToId_',
                     idToSymbol_ |-> idToSymbol_']
       IN  /\ getSymbol(after, id) = name
           /\ \A n \in DOMAIN symbolToId_' :
                getSymbol(after, symbolToId_'[n]) = n
           /\ name \in known =>
                /\ id = symbolToId_[name]
                /\ UNCHANGED <<nextId_, symbolToId_, idToSymbol_>>
           /\ name \notin known => id = Cardinality(known)
           /\ symbolToId_'[name] = id
           /\ \A n, m \in DOMAIN symbolToId_' :
                n # m => symbolToId_'[n] # symbolToId_'[m]
           /\ {symbolToId_'[n] : n \in DOMAIN symbolToId_'}
                = 0 .. (Cardinality(DOMAIN symbolToId_') - 1)
           /\ \A n \in known : symbolToId_'[n] = symbolToId_[n]]_symbolVars

\* a third symbol has been registered with id 2 and then looked up again
C26_Witness ==
  /\ symCall = [op |-> "getId", name |-> "ETHUSDT", id |-> 2]
  /\ Cardinality(DOMAIN symbolToId_) = 4
  /\ nextId_ = 4
  /\ getSymbol(SymbolState, 2) = "ETHUSDT"

(***************************************************************************)
(* Claims about the object pool (checked under SpecPool)                   *)
(***************************************************************************)
\* C27: for any sequence of acquire and release calls in which every
\* release is of a live cell, acquire succeeds whenever fewer than PoolSize
\* cells are live and returns null exactly when all are live; every cell it
\* returns is one of the PoolSize cells of the slab (and was not live).
C27_PoolAccounting ==
  [][poolCall'.op = "acquire" =>
       /\ (poolCall'.obj = NullPtr) <=> (Cardinality(live) = PoolSize)
       /\ Cardinality(live) < PoolSize =>
            /\ poolCall'.obj \in 0..(PoolSize - 1)
            /\ poolCall'.obj \notin live
            /\ live' = live \cup {poolCall'.obj}]_<<omVars, poolVars>>

\* every cell is live and the last acquire returned the cell that the
\* first acquire of all returns (the back of the initial free list): that
\* cell was released and handed out again
C27_Witness ==
  /\ poolCall = [op |-> "acquire", obj |-> PoolSize - 1]
  /\ live = 0..(PoolSize - 1)
  /\ freeList_ = <<>>

(***************************************************************************)
(* Claims about readers of an order (checked under SpecSnap)               *)
(***************************************************************************)
\* C28: execution reports are applied atomically with respect to a thread
\* that reads an order obtained from getOrder: the filledQuantity and the
\* state it reads are a pair the order held with no report half applied,
\* never the filledQuantity of a fill together with the state from before it.
C28_ConsistentSnapshot ==
  reader.pc = "done" =>
    <<reader.filledQuantity, reader.state>> \in reader.held

(***************************************************************************)
(* More claims about the ring buffer (checked under SpecQueue)             *)
(***************************************************************************)
\* the slots that hold an accepted item whose pop has not published the
\* advanced head: the k-th accepted item lies in slot (k - 1) mod Capacity
PendingSlots ==
  {(k - 1) % Capacity : k \in (Len(delivered) + 1)..Len(accepted)}

\* C29: the write of push to buffer_[tail] never targets a slot that holds an
\* accepted item whose pop has not yet published the advanced head; head_
\* and tail_ stay in 0..Capacity-1; head_ is written only by pop and tail_
\* only by push.
C29_NoOverwrite ==
  [][/\ \A i \in Slots : buffer_'[i] # buffer_[i] => i \notin PendingSlots
     /\ head_' \in 0..(Capacity - 1)
     /\ tail_' \in 0..(Capacity - 1)
     /\ head_' # head_ => cpc' # cpc /\ ppc' = ppc
     /\ tail_' # tail_ => ppc' # ppc /\ cpc' = cpc]_vars

\* the producer has written the first member of the last usable slot while
\* the consumer is in the middle of copying the oldest item, after the
\* indices have wrapped around the ring
C29_Witness ==
  /\ ppc = "push_write_last"
  /\ cpc = "pop_read_last"
  /\ NextIndex(NextIndex(push_current_tail)) = head_
  /\ Cardinality(PendingSlots) = Capacity - 2
  /\ Len(accepted) > Capacity
  /\ buffer_[push_current_tail].symbol = push_item.symbol

(***************************************************************************)
(* More claims about the order manager (checked under SpecOM)              *)
(***************************************************************************)
\* the state diagram of an order
Diagram ==
  {<<"PendingNew", "New">>,
   <<"New", "PartiallyFilled">>, <<"New", "Filled">>, <<"New", "Canceled">>,
   <<"New", "Rejected">>,
   <<"PartiallyFilled", "PartiallyFilled">>, <<"PartiallyFilled", "Filled">>,
   <<"PartiallyFilled", "Canceled">>}

\* C30: every change of an order's state made by onExecutionReport is an
\* arrow of the diagram PendingNew -> New -> {PartiallyFilled, Filled,
\* Canceled, Rejected}, PartiallyFilled -> {PartiallyFilled, Filled,
\* Canceled}: never backwards, never PartiallyFilled -> Rejected.
C30_FollowsDiagram ==
  [][ReportStep =>
       \A id \in DOMAIN orders_ :
         pool_'[orders_[id]].state # OrderOf(id).state =>
           <<OrderOf(id).state, pool_'[orders_[id]].state>> \in Diagram]_vars

\* C31: a report with execType PendingCancel or PendingNew for a known order
\* never changes that order's filledQuantity, quantity or price, and changes
\* no other order.
C31_PendingIsFrame ==
  [][(/\ ReportStep
      /\ lastCall'.report.execType \in {"PendingCancel", "PendingNew"}
      /\ lastCall'.report.orderId \in DOMAIN orders_) =>
       LET cell == orders_[lastCall'.report.orderId] IN
         /\ pool_'[cell].filledQuantity = pool_[cell].filledQuantity
         /\ pool_'[cell].quantity = pool_[cell].quantity
         /\ pool_'[cell].price = pool_[cell].price
         /\ \A other \in DOMAIN pool_ \ {cell} : pool_'[other] = pool_[other]
         /\ orders_' = orders_]_vars

\* a PendingCancel report has been applied to order 1, which a fill had left
\* with filledQuantity 1, while order 2 is in the registry
C31_Witness ==
  /\ lastCall.op = "onExecutionReport"
  /\ lastCall.report.execType = "PendingCancel"
  /\ lastCall.report.orderId = 1
  /\ DOMAIN orders_ = {1, 2}
  /\ OrderOf(1).filledQuantity = 1
  /\ OrderOf(1).quantity = 2

(***************************************************************************)
(* More claims about the strategy and the gateway (checked under           *)
(* SpecSystem)                                                             *)
(***************************************************************************)
\* C32: for each approved candidate the strategy calls createOrder, then
\* sendOrder with the id createOrder returned, then updatePosition; so the
\* order of every gateway thread started for a created order is in the
\* registry from the moment the thread exists, and its report cannot be
\* applied before that.
C32_CreateThenSend ==
  [][/\ TickStep =>
          LET log == tickLog' IN
            \A i \in DOMAIN log :
              (log[i].ev = "checkOrder" /\ log[i].ret) =>
                /\ i + 3 <= Len(log)
                /\ log[i + 1].ev = "createOrder"
                /\ log[i + 2].ev = "sendOrder"
                /\ log[i + 3].ev = "updatePosition"
                /\ log[i + 2].id = log[i + 1].id
                /\ \A k \in 1..3 : log[i + k].signal = log[i].signal
                /\ log[i + 1].id # -1 =>
                     /\ log[i + 1].id \notin DOMAIN orders_
                     /\ log[i + 1].id \in DOMAIN orders_'
                     /\ \E t \in BagToSet(inFlight') : t.orderId = log[i + 1].id
     /\ \A t \in BagToSet(inFlight') \cup {f.thread : f \in finished'} :
          t.orderId # -1 => t.orderId \in DOMAIN orders_'
    ]_vars

\* one tick has made both candidates: two orders were created and sent, the
\* thread of the first has ended and the thread of the second still sleeps
C32_Witness ==
  /\ Cardinality(Calls(tickLog, "sendOrder", "arbitrage")) = 1
  /\ Cardinality(Calls(tickLog, "sendOrder", "alpha")) = 1
  /\ DOMAIN orders_ = {1, 2}
  /\ \E f \in finished : f.thread.orderId = 1
  /\ \E t \in BagToSet(inFlight) : t.orderId = 2

\* the frame of a rejected check, and of every check on the position
C33_RejectedFrame ==
  /\ currentPosition_' = currentPosition_
  /\ ~riskCall'.ret => /\ ordersInWindow_' = ordersInWindow_
                       /\ lastCheckTime_' = lastCheckTime_

\* C33 as stated: checkOrder never changes currentPosition, an approved
\* check leaves ordersInWindow exactly one above what it was before the call,
\* and a rejected check, for whichever of the four reasons, leaves
\* ordersInWindow and the window start unchanged.
C33_ChecksFrame ==
  [][CheckStep =>
       /\ C33_RejectedFrame
       /\ riskCall'.ret => ordersInWindow_' = ordersInWindow_ + 1
    ]_vars

\* C33 amended: checkOrder never changes currentPosition; a rejected check,
\* for whichever of the four reasons, leaves ordersInWindow and the window
\* start unchanged; an approved check made less than 1 s after the window
\* start adds one to ordersInWindow and keeps the window start, and an
\* approved check made 1 s or more after it starts a new window at the time
\* of the call with ordersInWindow equal to one.
C33_ChecksFrameAfterReset ==
  [][CheckStep =>
       /\ C33_RejectedFrame
       /\ riskCall'.ret =>
            IF now - lastCheckTime_ >= 1000
            THEN ordersInWindow_' = 1 /\ lastCheckTime_' = now
            ELSE /\ ordersInWindow_' = ordersInWindow_ + 1
                 /\ lastCheckTime_' = lastCheckTime_
    ]_vars

\* a check has been approved 1 s or more after the window start: it has
\* started a new window at the time of the call and is the one order in it
C33_Witness ==
  /\ riskCall.op = "checkOrder"
  /\ riskCall.ret
  /\ now >= 1000
  /\ lastCheckTime_ = now
  /\ ordersInWindow_ = 1

\* how far into push the producer is, and how far into pop the consumer is
PushRank ==
  [pc \in {"push_load_tail", "push_check", "push_write_first",
           "push_write_last", "push_publish", "callback_ret", "idle"} |->
     CASE pc = "push_load_tail" -> 1
       [] pc = "push_check" -> 2
       [] pc = "push_write_first" -> 3
       [] pc = "push_write_last" -> 4
       [] pc = "push_publish" -> 5
       [] OTHER -> 6]
PopRank ==
  [pc \in {"idle", "pop_check", "pop_read_first", "pop_read_last",
           "pop_publish"} |->
     CASE pc = "idle" -> 0
       [] pc = "pop_check" -> 1
       [] pc = "pop_read_first" -> 2
       [] pc = "pop_read_last" -> 3
       [] OTHER -> 4]

\* the producer is inside push, and the step of push it is at
InPush == PushRank[ppc] <= 5
PushStep ==
  \/ PushLoadTail
  \/ PushCheckFull
  \/ PushWriteFirst
  \/ PushWriteLast
  \/ PushPublish
\* the step of pop the consumer is at
PopStep ==
  \/ PopLoadHead
  \/ PopCheckEmpty
  \/ PopReadFirst
  \/ PopReadLast
  \/ PopPublish

\* C34: push and pop are wait-free.  Wherever the other thread stands, the
\* next step of a push or a pop under way can be taken; every step of a call
\* moves it strictly forward through at most five steps (no loop), and the
\* call ends having returned true or false (Ok/Full, item/Empty).
C34_WaitFree ==
  /\ [](InPush => ENABLED PushStep)
  /\ [](ENABLED PopStep)
  /\ [][/\ (InPush /\ ppc' # ppc) => PushRank[ppc'] > PushRank[ppc]
        /\ (InPush /\ ~InPush') => (ppc' = "callback_ret"
                                     /\ pushRet' \in {"true", "false"})
        /\ (cpc' # cpc) => (PopRank[cpc'] > PopRank[cpc] \/ cpc' = "idle")
        /\ (cpc # "idle" /\ cpc' = "idle") => popRet' \in {"true", "false"}
       ]_vars

\* push has returned false (Full) while the consumer stands inside pop,
\* before it publishes head_
C34_Witness ==
  /\ ppc = "callback_ret"
  /\ pushRet = "false"
  /\ cpc = "pop_publish"

\* the quantities of the candidates the tick log approved, added up
RECURSIVE ApprovedQuantity(_)
ApprovedQuantity(log) ==
  IF log = <<>> THEN 0
  ELSE (IF log[1].ev = "checkOrder" /\ log[1].ret THEN log[1].quantity ELSE 0)
       + ApprovedQuantity(Tail(log))

\* every updatePosition of the log is the third call after an approved
\* checkOrder of the same side and quantity
UpdatesFollowApprovals(log) ==
  \A i \in 1..Len(log) :
    log[i].ev = "updatePosition" =>
      /\ i > 3
      /\ log[i - 3].ev = "checkOrder"
      /\ log[i - 3].ret
      /\ log[i - 3].side = log[i].side
      /\ log[i - 3].quantity = log[i].quantity

\* C35: in every reachable state of the running system the position is
\* within maxPosition (100, here in units of 0.001) in absolute value, and
\* the position changes only by the quantities of the candidates (all Buy)
\* that checkOrder approved on the tick, each followed by its updatePosition.
C35_PositionWithinLimit ==
  /\ [](currentPosition_ <= 100000 /\ currentPosition_ >= -100000)
  /\ [][/\ currentPosition_' # currentPosition_ => TickStep
        /\ TickStep => /\ currentPosition_' =
                             currentPosition_ + ApprovedQuantity(tickLog')
                       /\ UpdatesFollowApprovals(tickLog')
       ]_vars

\* the position stands at the limit and the tick had a candidate rejected
C35_Witness ==
  /\ currentPosition_ = 100000
  /\ \E i \in 1..Len(tickLog) :
       tickLog[i].ev = "checkOrder" /\ ~tickLog[i].ret

\* C36: every order the strategy creates or sends to the gateway has a
\* strictly positive price, whatever the ticks are, those with a zero ask
\* quantity or an empty BTCUSDT ask side included.
C36_PositivePrices ==
  /\ \A i \in 1..Len(tickLog) :
       tickLog[i].ev \in {"createOrder", "sendOrder"} => tickLog[i].price > 0
  /\ \A id \in DOMAIN orders_ : pool_[orders_[id]].price > 0

\* the cells on the free list
FreeCells == {freeList_[i] : i \in 1..Len(freeList_)}

\* C37: in every state reachable by acquire and release calls (each release
\* of a live cell) the free list and the live cells partition the PoolSize
\* cells of the slab: live count + free count = PoolSize, no cell is twice on
\* the free list, no cell is both free and live, and acquire never returns a
\* cell that is still live.
C37_Partition ==
  /\ [](/\ Cardinality(live) + Len(freeList_) = PoolSize
        /\ Cardinality(FreeCells) = Len(freeList_)
        /\ FreeCells \cap live = {}
        /\ FreeCells \cup live = 0..(PoolSize - 1))
  /\ [][(poolCall'.op = "acquire" /\ poolCall'.obj # NullPtr) =>
          (poolCall'.obj \notin live /\ poolCall'.obj \in FreeCells)
       ]_<<omVars, poolVars>>

\* a cell has been released while another is live: one cell is on the free
\* list again, above the cells never handed out
C37_Witness ==
  /\ poolCall.op = "release"
  /\ live # {}
  /\ freeList_ = <<poolCall.obj>>

\* the slots that hold a ticker pushed and not yet popped
Occupied ==
  {BitAnd(head_ + k, Capacity - 1) :
     k \in 0..(BitAnd(tail_ + Capacity - head_, Capacity - 1) - 1)}

\* run has just handled the ticker that it popped from the slot
Processed(slot) ==
  /\ rpc = "pop"
  /\ head_ = NextIndex(slot)

\* one onMarketData per pop, one pop per ticker: run comes to onMarketData
\* only by popping the ticker at head_, and leaves it by handling that ticker
OncePerPop ==
  /\ (rpc' = "on_market_data" /\ rpc # "on_market_data") =>
        /\ head_ \in Occupied
        /\ pop_item' = buffer_[head_]
        /\ head_' = NextIndex(head_)
  /\ (rpc = "on_market_data" /\ rpc' # rpc) =>
        /\ rpc' = "pop"
        /\ handled' = pop_item.update_id
        /\ head_' = head_
  /\ head_' # head_ => rpc' = "on_market_data"

\* C38: while the strategy is running (stop() has not been called), every ticker
\* pushed into the ring is eventually popped and handled by onMarketData when
\* the strategy thread is scheduled fairly, and it is handled once: each
\* pop takes the ticker at head_ out of the ring and is followed by exactly
\* one onMarketData of that ticker.
C38_PushedIsProcessed ==
  /\ [][OncePerPop]_vars
  /\ []running_
  /\ \A slot \in Slots : (slot \in Occupied) ~> Processed(slot)

\* the ring was full and run, still running, has handled the ticker of the
\* last slot of the ring
C38_Witness ==
  /\ running_
  /\ Processed(Capacity - 1)
  /\ handled \in FeedUpdateIds
  /\ Cardinality(Occupied) = Capacity - 2

\* C39: at shutdown no detached gateway thread touches the gateway or the
\* order manager after main has destroyed them: every thread started by
\* sendOrder has finished (its callback made) before their lifetimes end.
C39_ThreadsEndBeforeDestruction ==
  destroyed => inFlight = EmptyBag

====
